---------------------------- MODULE Spec2Model ----------------------------
(***************************************************************************)
(* A model of the soccer-overlay timeline engine:                          *)
(*   - SoccerScoreOverlay.parse_goal_data / add_overlays (score_overlay.py) *)
(*   - OverlayAnimations.combine_animations, slide_down_and_up and         *)
(*     goal_notification_sequence (animation.py)                           *)
(*   - the staggered lineup row animation (score_overlay.py)               *)
(*   - the single-phase generators fade_in .. pulse (animation.py)         *)
(*   - parse_time and clip_video (video_clipper.py)                        *)
(* Specifications: Spec (add_overlays), SpecAnim (multi-phase position     *)
(* functions), SpecEffect (single-phase generators), SpecCombine           *)
(* (combine_animations and the presets), SpecClip (clip_video), SpecTime   *)
(* (the two time converters side by side), SpecEasing (the Easing          *)
(* functions in binary64 arithmetic), SpecSample (the closures called in   *)
(* any order).                                                             *)
(*                                                                         *)
(* Times of the event timeline are whole seconds.  Times of the animation  *)
(* functions are whole tenths of a second ("ticks"); progress values and   *)
(* positions are exact rationals <<numerator, denominator>>, so the        *)
(* arithmetic is that of the real numbers the Python floats approximate.   *)
(* SpecEasing alone computes in IEEE 754 binary64, bit for bit.            *)
(***************************************************************************)
EXTENDS Integers, Sequences, FiniteSets, TLC

VARIABLES
    \* ---- SoccerScoreOverlay object (score_overlay.py) ----
    show_scoreboard, show_notifications, show_lineups,  \* self.show_*
    video_duration,        \* self.video.duration, seconds
    video_open,            \* the VideoFileClip handle is open
    \* ---- one call of add_overlays ----
    pc,                    \* position in add_overlays / parse_goal_data
    goals,                 \* argument: list of [time, team]
    custom_notifications,  \* argument: None or a list of [time]
    lineups,               \* argument: None or a list of [time, team, players]
    sorted_goals,          \* parse_goal_data local
    score_timeline,        \* parse_goal_data local / result
    team1_score, team2_score,
    i,                     \* loop index of the running loop
    score_overlays, notifications, lineup_overlays, clips,
    written,               \* write_videofile has been called
    \* ---- OverlayAnimations.combine_animations (animation.py) ----
    animation_configs,     \* argument: the list of animation configs
    parsed_configs,        \* list of [func, duration]
    total_duration,        \* ticks
    current_time,          \* ticks
    result_clip,           \* the clip being composed
    \* ---- position functions handed to the rendering engine ----
    generator_call,        \* the generator call that created them: its arguments
    position_fn,           \* the closures created by a generator (one per row)
    sample,                \* the last evaluation of one of them, if any
    \* ---- one call of clip_video (video_clipper.py) ----
    clip_start_time, clip_end_time,  \* arguments start_time, end_time: time values
    start_seconds,         \* local: None until parsed
    end_seconds,           \* local: None until parsed
    subclip,               \* local `clip`: None, or the subclip [start, end]
    \* ---- one conversion of a time value by both converters ----
    time_input,            \* the time value converted, None before
    converted,             \* what _to_seconds and parse_time made of it
    \* ---- one call of an easing function (animation.py) ----
    easing_call,           \* the function called and its argument, None before
    easing_value,          \* what it returned
    \* ---- closures called in any order (animation.py) ----
    evaluations,           \* every [t, value] a closure has returned so far
    np_random              \* np.random: how many numbers it has handed out

objVars  == <<show_scoreboard, show_notifications, show_lineups,
              video_duration, video_open>>
argVars  == <<goals, custom_notifications, lineups>>
parseVars == <<sorted_goals, score_timeline, team1_score, team2_score>>
layerVars == <<score_overlays, notifications, lineup_overlays, clips, written>>
overlayVars == <<objVars, argVars, parseVars, layerVars, i>>
combVars == <<animation_configs, parsed_configs, total_duration, current_time, result_clip>>
animVars == <<generator_call, position_fn, sample>>
clipVars == <<clip_start_time, clip_end_time, start_seconds, end_seconds, subclip>>
timeVars == <<time_input, converted>>
easeVars == <<easing_call, easing_value>>
renderVars == <<evaluations, np_random>>
toolVars == <<clipVars, timeVars, easeVars, renderVars>>
vars == <<overlayVars, combVars, animVars, clipVars, timeVars, easeVars, renderVars, pc>>

-----------------------------------------------------------------------------
(* Bounds of the model *)
MaxGoals == 3

(* An optional argument: None, or Some(v) holding the value v *)
None == <<>>
Some(v) == <<v>>
ValueOf(o) == o[1]

(***************************************************************************)
(* Time inputs.  A Python time value is a number ("num", one part) or a    *)
(* string ("str") split at ':' into its parts.  lex[j] tells what part j   *)
(* of a string is: "int", an integer literal such as "08", of value        *)
(* parts[j]; "float", a decimal literal such as "330.0", of value          *)
(* parts[j], which float() accepts and int() rejects; "word", text that is *)
(* no number, such as "bad" or the empty string.                           *)
(***************************************************************************)
AllInt(n)       == [j \in 1..n |-> "int"]
TimeNum(n)      == [kind |-> "num", parts |-> <<n>>, lex |-> AllInt(1)]
TimeStr(ps)     == [kind |-> "str", parts |-> ps, lex |-> AllInt(Len(ps))]
TimeLex(ps, lx) == [kind |-> "str", parts |-> ps, lex |-> lx]

(* Goal events: "08:20" and "08:20:00:00" convert to the same second, as   *)
(* do "05:00" and 300; "bad" does not convert                              *)
GoalEvents ==
    { [time |-> TimeStr(<<8, 20>>), team |-> 1],
      [time |-> TimeStr(<<5, 0>>),  team |-> 2],
      [time |-> TimeNum(300),       team |-> 1],
      [time |-> TimeStr(<<8, 20, 0, 0>>), team |-> 2],
      [time |-> TimeLex(<<0>>, <<"word">>), team |-> 1] }

VideoDurations == {400, 600}

RECURSIVE SeqsUpTo(_, _)
SeqsUpTo(S, n) ==
    IF n = 0 THEN { <<>> }
    ELSE LET shorter == SeqsUpTo(S, n - 1)
         IN  shorter \cup { Append(s, x) : s \in { q \in shorter : Len(q) = n - 1 }, x \in S }

GoalLists == SeqsUpTo(GoalEvents, MaxGoals)

CustomNotificationLists ==
    { None, Some(<<>>),
      Some(<< [time |-> TimeStr(<<8, 20>>)], [time |-> TimeNum(0)] >>),
      Some(<< [time |-> TimeLex(<<8, 0>>, <<"int", "word">>)] >>) }

LineupLists ==
    { None, Some(<< [time |-> TimeStr(<<0, 30>>), team |-> 2, players |-> 2] >>),
      Some(<< [time |-> TimeLex(<<0>>, <<"word">>), team |-> 1, players |-> 2] >>) }

-----------------------------------------------------------------------------
(* SoccerScoreOverlay._to_seconds raises ValueError: int() of a part that *)
(* is no integer literal, or float() of text that is no number           *)
ToSecondsNeverRaises(time_str) == FALSE

_to_seconds_raises(time_str) ==
    IF time_str.kind = "num" THEN FALSE
    ELSE IF Len(time_str.parts) >= 2
         THEN time_str.lex[1] # "int" \/ time_str.lex[2] # "int"
         ELSE time_str.lex[1] = "word"

(* SoccerScoreOverlay._to_seconds, when it returns *)
_to_seconds(time_str) ==
    IF time_str.kind = "num" THEN time_str.parts[1]
    ELSE IF Len(time_str.parts) >= 2
         THEN time_str.parts[1] * 60 + time_str.parts[2]
         ELSE time_str.parts[1]

(***************************************************************************)
(* sorted(goals, key=...): Python's sort is stable.  Insert places an      *)
(* element after every element whose key is <= its own.                    *)
(***************************************************************************)
RECURSIVE InsertUnstable(_, _)
InsertUnstable(s, g) ==
    IF s = <<>> THEN <<g>>
    ELSE IF _to_seconds(Head(s).time) < _to_seconds(g.time)
         THEN <<Head(s)>> \o InsertUnstable(Tail(s), g)
         ELSE <<g>> \o s

RECURSIVE Insert(_, _)
Insert(s, g) ==
    IF s = <<>> THEN <<g>>
    ELSE IF _to_seconds(Head(s).time) <= _to_seconds(g.time)
         THEN <<Head(s)>> \o Insert(Tail(s), g)
         ELSE <<g>> \o s

RECURSIVE SortedFrom(_, _)
SortedFrom(acc, rest) ==
    IF rest = <<>> THEN acc
    ELSE SortedFrom(Insert(acc, Head(rest)), Tail(rest))

Unsorted(gs) == gs

sorted(gs) == SortedFrom(<<>>, gs)

(* The body of the loop of parse_goal_data: the score pair after `goal`. *)
ScoresAfterNoElse(s1, s2, goal) ==
    IF goal.team = 1 THEN <<s1 + 1, s2 + 1>> ELSE <<s1, s2 + 1>>

ScoresAfter(s1, s2, goal) ==
    IF goal.team = 1 THEN <<s1 + 1, s2>> ELSE <<s1, s2 + 1>>

-----------------------------------------------------------------------------
(* No combine_animations call is running; no position function exists *)
ClipIdle ==
    /\ clip_start_time = None
    /\ clip_end_time = None
    /\ start_seconds = None
    /\ end_seconds = None
    /\ subclip = None

TimeIdle ==
    /\ time_input = None
    /\ converted = None

EaseIdle ==
    /\ easing_call = None
    /\ easing_value = None

RenderIdle ==
    /\ evaluations = {}
    /\ np_random = 0

CombIdle ==
    /\ animation_configs = <<>>
    /\ parsed_configs = <<>>
    /\ total_duration = 0
    /\ current_time = 0
    /\ result_clip = <<>>

AnimIdle ==
    /\ generator_call = <<>>
    /\ position_fn = <<>>
    /\ sample = <<>>

(* SoccerScoreOverlay.__init__ and the enable_* setters *)
Init ==
    /\ show_scoreboard \in BOOLEAN
    /\ show_notifications \in BOOLEAN
    /\ show_lineups \in BOOLEAN
    /\ video_duration \in VideoDurations
    /\ video_open = TRUE
    /\ pc = "idle"
    /\ goals = <<>>
    /\ custom_notifications = None
    /\ lineups = None
    /\ sorted_goals = <<>>
    /\ score_timeline = <<>>
    /\ team1_score = 0
    /\ team2_score = 0
    /\ i = 0
    /\ score_overlays = <<>>
    /\ notifications = <<>>
    /\ lineup_overlays = <<>>
    /\ clips = <<>>
    /\ written = FALSE
    /\ CombIdle
    /\ AnimIdle
    /\ ClipIdle
    /\ TimeIdle
    /\ EaseIdle
    /\ RenderIdle

enable_scoreboard ==
    /\ pc = "idle"
    /\ \E enabled \in BOOLEAN : show_scoreboard' = enabled
    /\ UNCHANGED <<toolVars, combVars, animVars, show_notifications, show_lineups, video_duration, video_open,
                   argVars, parseVars, layerVars, pc, i>>

enable_notifications ==
    /\ pc = "idle"
    /\ \E enabled \in BOOLEAN : show_notifications' = enabled
    /\ UNCHANGED <<toolVars, combVars, animVars, show_scoreboard, show_lineups, video_duration, video_open,
                   argVars, parseVars, layerVars, pc, i>>

enable_lineups ==
    /\ pc = "idle"
    /\ \E enabled \in BOOLEAN : show_lineups' = enabled
    /\ UNCHANGED <<toolVars, combVars, animVars, show_scoreboard, show_notifications, video_duration, video_open,
                   argVars, parseVars, layerVars, pc, i>>

(* add_overlays is called: the arguments are bound, parse_goal_data starts *)
add_overlays ==
    /\ pc = "idle"
    /\ goals' \in GoalLists
    /\ custom_notifications' \in CustomNotificationLists
    /\ lineups' \in LineupLists
    /\ score_timeline' = << <<0, 0, 0>> >>
    /\ team1_score' = 0
    /\ team2_score' = 0
    /\ IF \E k \in 1..Len(goals') : _to_seconds_raises(goals'[k].time)
       THEN /\ sorted_goals' = <<>>          \* the key function raises in sorted()
            /\ pc' = "error"
       ELSE /\ sorted_goals' = sorted(goals')
            /\ pc' = "parse_loop"
    /\ i' = 1
    /\ UNCHANGED <<toolVars, combVars, animVars, objVars, layerVars>>

(* one iteration of `for goal in sorted_goals`, or the return *)
parse_goal_data ==
    /\ pc = "parse_loop"
    /\ IF i <= Len(sorted_goals)
       THEN LET goal == sorted_goals[i]
                timestamp == _to_seconds(goal.time)
                sc == ScoresAfter(team1_score, team2_score, goal)
            IN  /\ team1_score' = sc[1]
                /\ team2_score' = sc[2]
                /\ score_timeline' = Append(score_timeline, <<timestamp, sc[1], sc[2]>>)
                /\ i' = i + 1
                /\ pc' = pc
                /\ UNCHANGED <<toolVars, clips>>
       ELSE /\ clips' = << <<"video", 1>> >>
            /\ i' = 1
            /\ pc' = "score_loop"
            /\ UNCHANGED <<toolVars, team1_score, team2_score, score_timeline>>
    /\ UNCHANGED <<toolVars, combVars, animVars, objVars, argVars, sorted_goals, score_overlays, notifications,
                   lineup_overlays, written>>


(* Default notification timing, whole seconds *)
NOTIFICATION_DISPLAY_DURATION == 3
NOTIFICATION_ANIMATION_DURATION == 3

(* SoccerScoreOverlay.create_notification: the clip handed to slide_down_and_up *)
create_notification(notification_text, background_color, display_duration, animation_duration) ==
    LET disp_duration == IF display_duration # None THEN ValueOf(display_duration)
                         ELSE NOTIFICATION_DISPLAY_DURATION
        anim_duration == IF animation_duration # None THEN ValueOf(animation_duration)
                         ELSE NOTIFICATION_ANIMATION_DURATION
    IN  [ text           |-> notification_text,
          color          |-> background_color,
          slide_duration |-> anim_duration,
          pause_duration |-> disp_duration,
          duration       |-> 2 * anim_duration + disp_duration,
          start          |-> 0 ]

set_start(clip, t) == [clip EXCEPT !.start = t]

(* End time of score segment k: the next entry's timestamp, or the video's end *)
EndTimeNoLast(timeline, k, duration) ==
    IF k < Len(timeline) - 1 THEN timeline[k + 1][1] ELSE duration

EndTime(timeline, k, duration) ==
    IF k < Len(timeline) THEN timeline[k + 1][1] ELSE duration

(* `scoring_team = 1 if team1_score > prev_team1_score else 2` *)
ScoringTeamAlwaysFirst(score, prev_score) == IF score >= prev_score THEN 1 ELSE 2

ScoringTeam(score, prev_score) == IF score > prev_score THEN 1 ELSE 2

(* `if self.show_notifications and i > 0 and custom_notifications is None` *)
(* with the model's 1-based i                                              *)
AutoNotificationAlways(show, k, custom) == show /\ k > 1

AutoNotification(show, k, custom) == show /\ k > 1 /\ custom = None

(* add_overlays, one iteration of `for i in range(len(score_timeline))`.   *)
(* The model's i is 1-based: Python's i is i - 1.                          *)
score_loop ==
    /\ pc = "score_loop"
    /\ IF i <= Len(score_timeline)
       THEN LET start_time == score_timeline[i][1]
                t1 == score_timeline[i][2]
                t2 == score_timeline[i][3]
                end_time == EndTime(score_timeline, i, video_duration)
                duration == end_time - start_time
            IN  /\ score_overlays' =
                     IF show_scoreboard
                     THEN Append(score_overlays,
                                 [ start |-> start_time, duration |-> duration,
                                   team1_score |-> t1, team2_score |-> t2 ])
                     ELSE score_overlays
                /\ notifications' =
                     IF AutoNotification(show_notifications, i, custom_notifications)
                     THEN LET prev_team1_score == score_timeline[i - 1][2]
                              scoring_team == ScoringTeam(t1, prev_team1_score)
                              team_color == IF scoring_team = 1 THEN "team1_color"
                                            ELSE "team2_color"
                          IN  Append(notifications,
                                     set_start(create_notification("GOAL", team_color,
                                                                   None, None),
                                               start_time))
                     ELSE notifications
                /\ i' = i + 1
                /\ pc' = pc
       ELSE /\ i' = 1
            /\ pc' = "custom"
            /\ UNCHANGED <<toolVars, score_overlays, notifications>>
    /\ UNCHANGED <<toolVars, combVars, animVars, objVars, argVars, parseVars, lineup_overlays, clips, written>>

(* add_overlays: `if self.show_notifications and custom_notifications:` *)
custom_notification_loop ==
    /\ pc = "custom"
    /\ IF show_notifications /\ custom_notifications # None
                             /\ ValueOf(custom_notifications) # <<>>
       THEN LET cn == ValueOf(custom_notifications)
                Raising == { k \in 1..Len(cn) : _to_seconds_raises(cn[k].time) }
                n == IF Raising = {} THEN Len(cn)
                     ELSE (CHOOSE k \in Raising : \A j \in Raising : k <= j) - 1
            IN  /\ notifications' = notifications \o
                     [ k \in 1..n |->
                         set_start(create_notification("NOTIFICATION", "default", None, None),
                                   _to_seconds(cn[k].time)) ]
                /\ pc' = IF Raising = {} THEN "lineups" ELSE "error"
       ELSE /\ notifications' = notifications
            /\ pc' = "lineups"
    /\ UNCHANGED <<toolVars, combVars, animVars, objVars, argVars, parseVars, score_overlays, lineup_overlays,
                   clips, written, i>>

(* add_overlays: `if self.show_lineups and lineups:` *)
lineup_loop ==
    /\ pc = "lineups"
    /\ IF show_lineups /\ lineups # None /\ ValueOf(lineups) # <<>>
       THEN LET ls == ValueOf(lineups)
                Raising == { k \in 1..Len(ls) : _to_seconds_raises(ls[k].time) }
                n == IF Raising = {} THEN Len(ls)
                     ELSE (CHOOSE k \in Raising : \A j \in Raising : k <= j) - 1
            IN  /\ lineup_overlays' = lineup_overlays \o
                     [ k \in 1..n |->
                         [ start |-> _to_seconds(ls[k].time),
                           team_color |-> IF ls[k].team = 1 THEN "team1_color"
                                          ELSE "team2_color",
                           total_items |-> 1 + ls[k].players + 1 ] ]
                /\ pc' = IF Raising = {} THEN "layer" ELSE "error"
       ELSE /\ lineup_overlays' = lineup_overlays
            /\ pc' = "layer"
    /\ UNCHANGED <<toolVars, combVars, animVars, objVars, argVars, parseVars, score_overlays, notifications,
                   clips, written, i>>

(* add_overlays: the layering order and CompositeVideoClip(clips) *)
Tag(kind, s) == [ k \in 1..Len(s) |-> <<kind, k>> ]

(* The three clips.extend calls, in the order of the source *)
ExtendScoresFirst(base, lineup_clips, notification_clips, score_clips) ==
    base \o score_clips \o notification_clips \o lineup_clips

Extend(base, lineup_clips, notification_clips, score_clips) ==
    base \o lineup_clips \o notification_clips \o score_clips

layer_clips ==
    /\ pc = "layer"
    /\ clips' = Extend(clips,
                  IF show_lineups THEN Tag("lineup", lineup_overlays) ELSE <<>>,
                  IF show_notifications THEN Tag("notification", notifications) ELSE <<>>,
                  IF show_scoreboard THEN Tag("score", score_overlays) ELSE <<>>)
    /\ pc' = "write"
    /\ UNCHANGED <<toolVars, combVars, animVars, objVars, argVars, parseVars, score_overlays, notifications,
                   lineup_overlays, written, i>>

(* add_overlays: final.write_videofile(...) *)
write_videofile ==
    /\ pc = "write"
    /\ written' = TRUE
    /\ pc' = "close"
    /\ UNCHANGED <<toolVars, combVars, animVars, objVars, argVars, parseVars, score_overlays, notifications,
                   lineup_overlays, clips, i>>

(* add_overlays: self.video.close() *)
close_video ==
    /\ pc = "close"
    /\ video_open' = FALSE
    /\ pc' = "done"
    /\ UNCHANGED <<toolVars, combVars, animVars, show_scoreboard, show_notifications, show_lineups, video_duration,
                   argVars, parseVars, layerVars, i>>

Next ==
    \/ enable_scoreboard
    \/ enable_notifications
    \/ enable_lineups
    \/ add_overlays
    \/ parse_goal_data
    \/ score_loop
    \/ custom_notification_loop
    \/ lineup_loop
    \/ layer_clips
    \/ write_videofile
    \/ close_video

Spec == Init /\ [][Next]_vars

-----------------------------------------------------------------------------
(* Properties of parse_goal_data and of the score segments of add_overlays *)

(* parse_goal_data has returned: it was called and no goal time made it raise *)
ParseRaised == \E k \in 1..Len(goals) : _to_seconds_raises(goals[k].time)
Parsed == pc \notin {"idle", "parse_loop"} /\ ~ParseRaised
ScoreLoopDone == pc \in {"custom", "lineups", "layer", "write", "close", "done"}

GoalSeconds(j) == _to_seconds(goals[j].time)

(* goals of `team` (1, or anything else for team 2) among the goal indices J *)
GoalsOf(team, J) ==
    Cardinality({ j \in J : (goals[j].team = 1) <=> (team = 1) })

ExampleGoals == << [time |-> TimeStr(<<8, 20>>), team |-> 1],
                   [time |-> TimeStr(<<5, 0>>),  team |-> 2] >>
ExampleTimeline == << <<0, 0, 0>>, <<300, 0, 1>>, <<500, 1, 1>> >>

(* C1: the timeline returned by parse_goal_data is the baseline (0,0,0)    *)
(* followed by exactly one entry per goal, the entries' timestamps are the *)
(* goals' times in seconds in non-decreasing order, and the goals 08:20    *)
(* (team 1), 05:00 (team 2) give [(0,0,0),(300,0,1),(500,1,1)].            *)
C1_TimelineSorted ==
    Parsed =>
      /\ Len(score_timeline) = Len(goals) + 1
      /\ score_timeline[1] = <<0, 0, 0>>
      /\ \A k \in 1..(Len(score_timeline) - 1) :
            score_timeline[k][1] <= score_timeline[k + 1][1]
      /\ \A j \in 1..Len(goals) :
            Cardinality({ k \in 2..Len(score_timeline) :
                            score_timeline[k][1] = GoalSeconds(j) })
              = Cardinality({ m \in 1..Len(goals) : GoalSeconds(m) = GoalSeconds(j) })
      /\ (goals = ExampleGoals => score_timeline = ExampleTimeline)

C1_Witness ==
    /\ Parsed
    /\ goals = ExampleGoals
    /\ score_timeline = ExampleTimeline

(* C3: every entry after the baseline raises exactly one score by one over *)
(* the previous entry (team 1's when the goal's team is 1), leaves the     *)
(* other unchanged, and the k-th entry after the baseline has              *)
(* score1 + score2 = k.                                                    *)
C3_OneGoalPerEntry ==
    \A k \in 2..Len(score_timeline) :
       LET prev == score_timeline[k - 1]
           cur  == score_timeline[k]
           goal == sorted_goals[k - 1]
       IN  /\ goal.team = 1 => cur[2] = prev[2] + 1 /\ cur[3] = prev[3]
           /\ goal.team # 1 => cur[2] = prev[2] /\ cur[3] = prev[3] + 1
           /\ cur[2] + cur[3] = k - 1
           /\ cur[2] >= prev[2] /\ cur[3] >= prev[3]

C3_Witness ==
    /\ Parsed
    /\ Len(score_timeline) = 4
    /\ score_timeline[2][2] = 1
    /\ score_timeline[3][3] = 1
    /\ score_timeline[4] = <<500, 2, 1>>

(* C4: goals with the same timestamp appear in the timeline in input       *)
(* order: the entry of rank r among the entries with timestamp ts counts   *)
(* the goals before ts and the first r goals, in input order, at ts.       *)
C4_StableTieBreak ==
    Parsed =>
      \A k \in 2..Len(score_timeline) :
         LET ts     == score_timeline[k][1]
             before == { j \in 1..Len(goals) : GoalSeconds(j) < ts }
             r      == (k - 1) - Cardinality(before)
             atTs   == { j \in 1..Len(goals) : GoalSeconds(j) = ts }
             firstR == { j \in atTs :
                           Cardinality({ m \in atTs : m <= j }) <= r }
         IN  /\ score_timeline[k][2] = GoalsOf(1, before \cup firstR)
             /\ score_timeline[k][3] = GoalsOf(2, before \cup firstR)

C4_Witness ==
    /\ Parsed
    /\ Len(goals) = 3
    /\ goals[1] = [time |-> TimeStr(<<5, 0>>), team |-> 2]
    /\ goals[2] = [time |-> TimeNum(300), team |-> 1]
    /\ goals[3] = [time |-> TimeStr(<<5, 0>>), team |-> 2]
    /\ score_timeline = << <<0, 0, 0>>, <<300, 0, 1>>, <<300, 1, 1>>, <<300, 1, 2>> >>

(* A score overlay is shown at time t when start <= t < start + duration *)
Active(o, t) == o.start <= t /\ t < o.start + o.duration

(* The times at which the set of goals scored so far can change, and their *)
(* neighbours: the shown score is constant between two of them.            *)
CheckTimes ==
    { t \in {0, video_duration - 1}
            \cup UNION { { GoalSeconds(j) - 1, GoalSeconds(j), GoalSeconds(j) + 1 } :
                         j \in 1..Len(goals) } :
        0 <= t /\ t < video_duration }

GoalsInVideo ==
    \A j \in 1..Len(goals) : 0 <= GoalSeconds(j) /\ GoalSeconds(j) <= video_duration

(* C2: with the scoreboard enabled and every goal within [0, duration],    *)
(* there is one score overlay per timeline entry, from the entry's         *)
(* timestamp to the next entry's (the last to the video's end); the        *)
(* segments tile [0, duration] and the overlay active at t shows each      *)
(* team's number of goals with timestamp <= t.                             *)
C2_ScoreSegments ==
    (ScoreLoopDone /\ show_scoreboard /\ GoalsInVideo) =>
      /\ Len(score_overlays) = Len(score_timeline)
      /\ \A k \in 1..Len(score_overlays) :
            /\ score_overlays[k].start = score_timeline[k][1]
            /\ score_overlays[k].duration >= 0
            /\ score_overlays[k].start + score_overlays[k].duration =
                 (IF k < Len(score_overlays) THEN score_overlays[k + 1].start
                  ELSE video_duration)
      /\ score_overlays[1].start = 0
      /\ \A t \in CheckTimes :
            LET shown == { k \in 1..Len(score_overlays) : Active(score_overlays[k], t) }
                upTo  == { j \in 1..Len(goals) : GoalSeconds(j) <= t }
            IN  /\ Cardinality(shown) = 1
                /\ \A k \in shown :
                      /\ score_overlays[k].team1_score = GoalsOf(1, upTo)
                      /\ score_overlays[k].team2_score = GoalsOf(2, upTo)

C2_Witness ==
    /\ ScoreLoopDone /\ show_scoreboard /\ GoalsInVideo
    /\ video_duration = 600
    /\ Len(score_overlays) = 4
    /\ score_overlays[2] = [start |-> 300, duration |-> 0, team1_score |-> 1, team2_score |-> 0]
    /\ score_overlays[3] = [start |-> 300, duration |-> 200, team1_score |-> 1, team2_score |-> 1]
    /\ score_overlays[4] = [start |-> 500, duration |-> 100, team1_score |-> 2, team2_score |-> 1]

-----------------------------------------------------------------------------
(***************************************************************************)
(* Exact rational arithmetic for the float computations of animation.py.   *)
(* A rational is <<n, d>> with d > 0 and gcd(n, d) = 1.                    *)
(***************************************************************************)
Abs(n) == IF n < 0 THEN -n ELSE n

RECURSIVE GCD(_, _)
GCD(a, b) == IF b = 0 THEN a ELSE GCD(b, a % b)

Norm(n, d) ==
    LET g == GCD(Abs(n), Abs(d))
        sgn == IF d < 0 THEN -1 ELSE 1
    IN  << sgn * (n \div g), sgn * (d \div g) >>

R(n) == <<n, 1>>
RAdd(a, b) ==
    LET g == GCD(a[2], b[2])
        l == (a[2] \div g) * b[2]
    IN  Norm(a[1] * (l \div a[2]) + b[1] * (l \div b[2]), l)
RNeg(a)    == << -a[1], a[2] >>
RSub(a, b) == RAdd(a, RNeg(b))
RMul(a, b) ==
    LET x == Norm(a[1], b[2])
        y == Norm(b[1], a[2])
    IN  Norm(x[1] * y[1], x[2] * y[2])
RDiv(a, b) == RMul(a, Norm(b[2], b[1]))
RLt(a, b)  == a[1] * b[2] < b[1] * a[2]
RLe(a, b)  == a[1] * b[2] <= b[1] * a[2]
RMin(a, b) == IF RLe(a, b) THEN a ELSE b

(***************************************************************************)
(* class Easing: the polynomial easing functions, on exact rationals.      *)
(***************************************************************************)
linear(t) == t
ease_in_quad(t) == RMul(t, t)
ease_out_quad(t) == RMul(t, RSub(R(2), t))
ease_in_out_quad(t) ==
    IF RLt(t, <<1, 2>>)
    THEN RMul(R(2), RMul(t, t))
    ELSE RAdd(R(-1), RMul(RSub(R(4), RMul(R(2), t)), t))
ease_in_cubic(t) == RMul(t, RMul(t, t))
ease_out_cubic(t) ==
    LET u == RSub(t, R(1)) IN RAdd(RMul(u, RMul(u, u)), R(1))
ease_in_back(t) ==
    LET c1 == Norm(170158, 100000)
        c3 == RAdd(c1, R(1))
    IN  RSub(RMul(c3, RMul(t, RMul(t, t))), RMul(c1, RMul(t, t)))
ease_out_bounce(t) ==
    LET n1 == Norm(75625, 10000)
        d1 == Norm(275, 100)
        sq(u) == RMul(n1, RMul(u, u))
    IN  IF RLt(t, RDiv(R(1), d1)) THEN sq(t)
        ELSE IF RLt(t, RDiv(R(2), d1))
             THEN RAdd(sq(RSub(t, RDiv(Norm(15, 10), d1))), Norm(75, 100))
        ELSE IF RLt(t, RDiv(Norm(25, 10), d1))
             THEN RAdd(sq(RSub(t, RDiv(Norm(225, 100), d1))), Norm(9375, 10000))
        ELSE RAdd(sq(RSub(t, RDiv(Norm(2625, 1000), d1))), Norm(984375, 1000000))

EasingNames == { "linear", "ease_in_quad", "ease_out_quad", "ease_in_out_quad",
                 "ease_in_cubic", "ease_out_cubic", "ease_in_back", "ease_out_bounce" }

(* Calling an easing function passed by reference *)
Ease(f, t) ==
    CASE f = "linear"           -> linear(t)
      [] f = "ease_in_quad"     -> ease_in_quad(t)
      [] f = "ease_out_quad"    -> ease_out_quad(t)
      [] f = "ease_in_out_quad" -> ease_in_out_quad(t)
      [] f = "ease_in_cubic"    -> ease_in_cubic(t)
      [] f = "ease_out_cubic"   -> ease_out_cubic(t)
      [] f = "ease_in_back"     -> ease_in_back(t)
      [] f = "ease_out_bounce"  -> ease_out_bounce(t)

-----------------------------------------------------------------------------
(***************************************************************************)
(* The multi-phase position functions.  A time t is a whole number of      *)
(* ticks (tenths of a second), t >= 0.  Each function returns the position *)
(* (x, y) together with the branch that computed it and the progress value *)
(* it passed to the easing function, if it called one.                     *)
(***************************************************************************)
MaxPause   == 5     \* pause / display durations 0..MaxPause ticks
Overrun    == 3     \* samples are taken up to Overrun ticks past the end
MaxPlayers == 2     \* players of a lineup

SlideDurations == {1, 4, 10}
ClipHeights    == {50}
BasePositions  == { <<10, 20>>, <<0, 0>> }

Result(x, y, phase, progress, eased) ==
    [x |-> x, y |-> y, phase |-> phase, progress |-> progress, eased |-> eased]

(* progress = min(1.0, progress) *)
NoClamp(progress) == progress

Clamp(progress) == RMin(R(1), progress)

(* `elif t <= (slide_duration + pause_duration)` *)
InHoldStrict(t, slide_duration, hold_duration) == t < slide_duration + hold_duration

InHold(t, slide_duration, hold_duration) == t <= slide_duration + hold_duration

(* y_offset = h * (1 - eased_progress) *)
SlideUpOffsetDown(h, eased_progress) == RMul(R(h), eased_progress)

SlideUpOffset(h, eased_progress) == RMul(R(h), RSub(R(1), eased_progress))

(* OverlayAnimations.slide_down_and_up: the closure slide_down_up_position *)
slide_down_up_position(c, t) ==
    IF t <= c.slide_duration
    THEN LET progress == Norm(t, c.slide_duration)
             eased_progress == Ease(c.easing, progress)
             y_offset == RMul(R(c.h), eased_progress)
         IN  Result(R(c.base_x), RAdd(R(c.base_y), y_offset), "enter", progress, TRUE)
    ELSE IF InHold(t, c.slide_duration, c.pause_duration)
    THEN Result(R(c.base_x), R(c.base_y + c.h), "hold", R(0), FALSE)
    ELSE LET slide_up_start == c.slide_duration + c.pause_duration
             progress == Clamp(Norm(t - slide_up_start, c.slide_duration))
             eased_progress == Ease(c.easing, progress)
             y_offset == SlideUpOffset(c.h, eased_progress)
         IN  Result(R(c.base_x), RAdd(R(c.base_y), y_offset), "exit", progress, TRUE)

(* OverlayAnimations.goal_notification_sequence: the closure goal_position *)
goal_position(c, t) ==
    IF t <= c.slide_duration
    THEN LET progress == Norm(t, c.slide_duration)
             eased_progress == Ease(c.entrance_easing, progress)
             y_offset == RMul(R(-c.h), RSub(R(1), eased_progress))
         IN  Result(R(0), y_offset, "enter", progress, TRUE)
    ELSE IF InHold(t, c.slide_duration, c.display_duration)
    THEN Result(R(0), R(0), "hold", R(0), FALSE)
    ELSE LET slide_start == c.slide_duration + c.display_duration
             progress == Clamp(Norm(t - slide_start, c.slide_duration))
             eased_progress == Ease(c.exit_easing, progress)
             y_offset == RMul(R(-c.h), eased_progress)
         IN  Result(R(0), y_offset, "exit", progress, TRUE)

(* SoccerScoreOverlay._create_lineup_item_animation: the closure position_function *)
position_function(c, t) ==
    LET start_x == -c.container_width - 100
    IN  IF t < c.start_delay
        THEN Result(R(start_x), R(c.final_y), "wait", R(0), FALSE)
        ELSE IF t < c.start_delay + c.anim_duration
        THEN LET progress == Norm(t - c.start_delay, c.anim_duration)
                 eased_progress == ease_out_bounce(progress)
                 current_x == RAdd(R(start_x), RMul(R(c.final_x - start_x), eased_progress))
             IN  Result(current_x, R(c.final_y), "enter", progress, TRUE)
        ELSE IF t < c.total_animation_time + c.display_duration
        THEN Result(R(c.final_x), R(c.final_y), "hold", R(0), FALSE)
        ELSE LET exit_progress ==
                     Clamp(Norm(t - (c.total_animation_time + c.display_duration),
                                c.anim_duration))
                 eased_progress == ease_in_quad(exit_progress)
                 end_x == -c.container_width - 100
                 current_x == RAdd(R(c.final_x), RMul(R(end_x - c.final_x), eased_progress))
             IN  Result(current_x, R(c.final_y), "exit", exit_progress, TRUE)

(* Evaluating a closure at time t *)
Evaluate(c, t) ==
    CASE c.kind = "slide_down_and_up"          -> slide_down_up_position(c, t)
      [] c.kind = "goal_notification_sequence" -> goal_position(c, t)
      [] c.kind = "lineup"                     -> position_function(c, t)

(* The time at which the clip carrying closure c ends *)
ClipEnd(c) ==
    CASE c.kind = "slide_down_and_up"          -> 2 * c.slide_duration + c.pause_duration
      [] c.kind = "goal_notification_sequence" -> 2 * c.slide_duration + c.display_duration
      [] c.kind = "lineup" -> c.total_animation_time + c.display_duration + c.anim_duration

-----------------------------------------------------------------------------
(* Lineup configuration (score_overlay.py), durations in ticks *)
LOW_RES_THRESHOLD == 720
MEDIUM_RES_THRESHOLD == 1280
LINEUP_DISPLAY_DURATION == 80
LINEUP_ANIMATION_DURATION == 5
LINEUP_STAGGER_DELAY == 2

_get_resolution_category_strict(video_width) ==
    IF video_width < LOW_RES_THRESHOLD THEN "low"
    ELSE IF video_width < MEDIUM_RES_THRESHOLD THEN "medium"
    ELSE "high"

_get_resolution_category(video_width) ==
    IF video_width <= LOW_RES_THRESHOLD THEN "low"
    ELSE IF video_width <= MEDIUM_RES_THRESHOLD THEN "medium"
    ELSE "high"

(* DIMENSIONS[res]: (height, team_box_width, score_box_width, accent_width) *)
DIMENSIONS ==
    [ low |-> <<36, 100, 80, 4>>, medium |-> <<46, 120, 100, 5>>, high |-> <<58, 160, 140, 6>> ]

(* FONT_SIZES[res]: (team_name_size, score_size) *)
FONT_SIZES ==
    [ low |-> <<16, 24>>, medium |-> <<20, 30>>, high |-> <<28, 40>> ]

TEXT_MARGIN_FROM_ACCENT ==
    [ low |-> 10, medium |-> 20, high |-> 20 ]

(* create_lineup_overlay: lineup_width per resolution *)
LineupWidth(res) ==
    CASE res = "low" -> 350 [] res = "medium" -> 400 [] res = "high" -> 500

(* start_delay of a row: item_index * stagger *)
StartDelayNext(item_index, stagger) == (item_index + 1) * stagger

StartDelay(item_index, stagger) == item_index * stagger

(* total_animation_time = (total_items - 1) * stagger + anim_duration *)
TotalAnimationTimeOwn(total_items, stagger, anim_duration) == anim_duration

TotalAnimationTime(total_items, stagger, anim_duration) ==
    (total_items - 1) * stagger + anim_duration

(* SoccerScoreOverlay.create_lineup_overlay: the rows' closures, in order  *)
(* team name, players, director                                            *)
LineupRows(players, display_duration, animation_duration, stagger_delay, video_width) ==
    LET disp_duration == IF display_duration # None THEN ValueOf(display_duration)
                         ELSE LINEUP_DISPLAY_DURATION
        anim_duration == IF animation_duration # None THEN ValueOf(animation_duration)
                         ELSE LINEUP_ANIMATION_DURATION
        stagger == IF stagger_delay # None THEN ValueOf(stagger_delay)
                   ELSE LINEUP_STAGGER_DELAY
        res_category == _get_resolution_category(video_width)
        item_height == DIMENSIONS[res_category][1]
        padding == 0
        lineup_width == LineupWidth(res_category)
        total_items == 1 + players + 1
        total_animation_time == TotalAnimationTime(total_items, stagger, anim_duration)
    IN  [ r \in 1..total_items |->
            [ kind |-> "lineup",
              container_width |-> lineup_width,
              final_x |-> 0,
              final_y |-> (r - 1) * (item_height + padding),
              start_delay |-> StartDelay(r - 1, stagger),
              anim_duration |-> anim_duration,
              display_duration |-> disp_duration,
              total_animation_time |-> total_animation_time ] ]

VideoWidths == {640, 720, 1280, 1920}
Optional(S) == {None} \cup { Some(v) : v \in S }

(* The program state outside add_overlays: a constructed overlay object *)
OverlayIdle ==
    /\ show_scoreboard = TRUE
    /\ show_notifications = TRUE
    /\ show_lineups = TRUE
    /\ video_duration = 600
    /\ video_open = TRUE
    /\ goals = <<>>
    /\ custom_notifications = None
    /\ lineups = None
    /\ sorted_goals = <<>>
    /\ score_timeline = <<>>
    /\ team1_score = 0
    /\ team2_score = 0
    /\ i = 0
    /\ score_overlays = <<>>
    /\ notifications = <<>>
    /\ lineup_overlays = <<>>
    /\ clips = <<>>
    /\ written = FALSE

InitAnim ==
    /\ OverlayIdle
    /\ CombIdle
    /\ AnimIdle
    /\ ClipIdle
    /\ TimeIdle
    /\ EaseIdle
    /\ RenderIdle
    /\ pc = "animation"

(* OverlayAnimations.slide_down_and_up(clip, slide_duration, pause_duration, easing, base_position) *)
slide_down_and_up ==
    /\ pc = "animation"
    /\ position_fn = <<>>
    /\ \E slide_duration \in SlideDurations, pause_duration \in 0..MaxPause,
          easing \in Optional(EasingNames), h \in ClipHeights,
          base_position \in BasePositions :
          /\ generator_call' = [ name |-> "slide_down_and_up" ]
          /\ position_fn' = << [ kind |-> "slide_down_and_up",
                              h |-> h,
                              base_x |-> base_position[1],
                              base_y |-> base_position[2],
                              slide_duration |-> slide_duration,
                              pause_duration |-> pause_duration,
                              easing |-> IF easing = None THEN "ease_in_out_quad"
                                         ELSE ValueOf(easing) ] >>
    /\ UNCHANGED <<toolVars, overlayVars, combVars, sample, pc>>

(* OverlayAnimations.goal_notification_sequence(clip, slide_duration, display_duration, entrance_easing, exit_easing) *)
goal_notification_sequence ==
    /\ pc = "animation"
    /\ position_fn = <<>>
    /\ \E slide_duration \in SlideDurations, display_duration \in 0..MaxPause,
          entrance_easing \in Optional({"linear"}),
          exit_easing \in Optional(EasingNames), h \in ClipHeights :
          /\ generator_call' = [ name |-> "goal_notification_sequence" ]
          /\ position_fn' = << [ kind |-> "goal_notification_sequence",
                              h |-> h,
                              slide_duration |-> slide_duration,
                              display_duration |-> display_duration,
                              entrance_easing |-> IF entrance_easing = None
                                                  THEN "ease_out_bounce"
                                                  ELSE ValueOf(entrance_easing),
                              exit_easing |-> IF exit_easing = None THEN "ease_in_back"
                                              ELSE ValueOf(exit_easing) ] >>
    /\ UNCHANGED <<toolVars, overlayVars, combVars, sample, pc>>

(* SoccerScoreOverlay.create_lineup_overlay(team_name, players, director, ...) *)
create_lineup_overlay ==
    /\ pc = "animation"
    /\ position_fn = <<>>
    /\ \E players \in 0..MaxPlayers, display_duration \in Optional({0, MaxPause}),
          animation_duration \in Optional({3}), stagger_delay \in Optional({0, 3}),
          video_width \in VideoWidths :
          /\ generator_call' = [ name |-> "create_lineup_overlay",
                                 players |-> players,
                                 display_duration |-> display_duration,
                                 animation_duration |-> animation_duration,
                                 stagger_delay |-> stagger_delay,
                                 video_width |-> video_width ]
          /\ position_fn' = LineupRows(players, display_duration, animation_duration,
                                       stagger_delay, video_width)
    /\ UNCHANGED <<toolVars, overlayVars, combVars, sample, pc>>

(* One evaluation: the row, the time, and what the function returned *)
Sampled(r, t, v) ==
    [ row |-> r, t |-> t, x |-> v.x, y |-> v.y, phase |-> v.phase,
      progress |-> v.progress, eased |-> v.eased ]

(* The rendering engine evaluates the position function of one clip for   *)
(* the next frame: frames are rendered in time order, one tick apart, from *)
(* t = 0 until Overrun ticks past the end of the clip.                     *)
evaluate_position ==
    /\ pc = "animation"
    /\ position_fn # <<>>
    /\ \E r \in 1..Len(position_fn) :
         LET t == IF sample = <<>> THEN 0 ELSE sample[1].t + 1
         IN  /\ t <= ClipEnd(position_fn[r]) + Overrun
             /\ sample' = << Sampled(r, t, Evaluate(position_fn[r], t)) >>
    /\ UNCHANGED <<toolVars, overlayVars, combVars, generator_call, position_fn, pc>>

NextAnim ==
    \/ slide_down_and_up
    \/ goal_notification_sequence
    \/ create_lineup_overlay
    \/ evaluate_position

SpecAnim == InitAnim /\ [][NextAnim]_vars

-----------------------------------------------------------------------------
(***************************************************************************)
(* OverlayAnimations.combine_animations(clip, *animation_configs).         *)
(* A config is a bare callable, a tuple (func, duration[, kwargs]) of      *)
(* length n, or something else.  Durations are in ticks.                   *)
(***************************************************************************)
MaxConfigs == 3

DEFAULT_DURATION == 5      \* a bare callable: 0.5 seconds

Callable(f)        == [kind |-> "callable", func |-> f, duration |-> 0, n |-> 0]
Tuple(f, d, n)     == [kind |-> "tuple", func |-> f, duration |-> d, n |-> n]
NotAConfig         == [kind |-> "other", func |-> "none", duration |-> 0, n |-> 0]

AnimationConfigs ==
    { Callable("fade_in"),
      Tuple("fade_in", 3, 2),
      Tuple("slide_in_from_top", 8, 3),
      Tuple("pulse", 0, 1),           \* a one-element tuple: not a valid config
      NotAConfig }                    \* a string, say: not a valid config

(* `isinstance(config, tuple) and len(config) >= 2` *)
IsAnyTuple(config) == config.kind = "tuple"

IsTupleConfig(config) == config.kind = "tuple" /\ config.n >= 2

ConfigLists == SeqsUpTo(AnimationConfigs, MaxConfigs)

(* Clips of the media library: a plain or animated clip, or a composite *)
TheClip == [kind |-> "clip", func |-> "none", start |-> 0, duration |-> 0, layers |-> <<>>]

set_duration(c, d) == [c EXCEPT !.duration = d]

(* animation_func(segment_clip, duration=duration, **kwargs): the generators *)
(* return the clip with a property function attached, its duration kept      *)
Animate(func, segment_clip, duration) == [segment_clip EXCEPT !.func = func]

Max2(a, b) == IF a >= b THEN a ELSE b

(* CompositeVideoClip([a, b]): starts at 0 and ends when its last layer   *)
(* ends; the layers are drawn in list order, b over a                     *)
CompositeUnder(a, b) ==
    [ kind |-> "composite", func |-> "none", start |-> 0,
      duration |-> Max2(a.start + a.duration, b.start + b.duration),
      layers |-> <<b, a>> ]

CompositeVideoClip(a, b) ==
    [ kind |-> "composite", func |-> "none", start |-> 0,
      duration |-> Max2(a.start + a.duration, b.start + b.duration),
      layers |-> <<a, b>> ]

(* current_time += duration *)
NextTimeStuck(time, duration) == time

NextTime(time, duration) == time + duration

CombInit ==
    /\ OverlayIdle
    /\ CombIdle
    /\ AnimIdle
    /\ ClipIdle
    /\ TimeIdle
    /\ EaseIdle
    /\ RenderIdle
    /\ pc = "combine"

(* the call: `if not animation_configs: return clip` *)
combine_animations ==
    /\ pc = "combine"
    /\ \E configs \in ConfigLists :
         /\ animation_configs' = configs
         /\ IF configs = <<>>
            THEN /\ result_clip' = TheClip
                 /\ pc' = "comb_done"
                 /\ i' = i
            ELSE /\ result_clip' = result_clip
                 /\ pc' = "comb_parse"
                 /\ i' = 1
    /\ parsed_configs' = <<>>
    /\ total_duration' = 0
    /\ UNCHANGED <<toolVars, objVars, argVars, parseVars, layerVars, animVars, current_time>>

(* one iteration of `for config in animation_configs`, or the end of the loop *)
parse_config ==
    /\ pc = "comb_parse"
    /\ IF i <= Len(animation_configs)
       THEN LET config == animation_configs[i]
            IN  IF config.kind = "callable"
                THEN /\ parsed_configs' = Append(parsed_configs,
                            [func |-> config.func, duration |-> DEFAULT_DURATION])
                     /\ total_duration' = total_duration + DEFAULT_DURATION
                     /\ i' = i + 1
                     /\ pc' = pc
                     /\ UNCHANGED <<toolVars, result_clip, current_time>>
                ELSE IF IsTupleConfig(config)
                THEN /\ parsed_configs' = Append(parsed_configs,
                            [func |-> config.func, duration |-> config.duration])
                     /\ total_duration' = total_duration + config.duration
                     /\ i' = i + 1
                     /\ pc' = pc
                     /\ UNCHANGED <<toolVars, result_clip, current_time>>
                ELSE /\ pc' = "comb_error"        \* raise ValueError
                     /\ UNCHANGED <<toolVars, parsed_configs, total_duration, i, result_clip,
                                    current_time>>
       ELSE /\ result_clip' = set_duration(TheClip, total_duration)
            /\ current_time' = 0
            /\ i' = 1
            /\ pc' = "comb_apply"
            /\ UNCHANGED <<toolVars, parsed_configs, total_duration>>
    /\ UNCHANGED <<toolVars, objVars, argVars, parseVars, layerVars, animVars, animation_configs>>

(* one iteration of `for i, (animation_func, duration, kwargs) in enumerate(...)`, *)
(* or the return                                                                  *)
apply_animation ==
    /\ pc = "comb_apply"
    /\ IF i <= Len(parsed_configs)
       THEN LET duration == parsed_configs[i].duration
                segment_clip == set_duration(TheClip, duration)
                animated_segment ==
                    set_start(Animate(parsed_configs[i].func, segment_clip, duration),
                              current_time)
            IN  /\ result_clip' = IF i = 1 THEN animated_segment
                                  ELSE CompositeVideoClip(result_clip, animated_segment)
                /\ current_time' = NextTime(current_time, duration)
                /\ i' = i + 1
                /\ pc' = pc
       ELSE /\ pc' = "comb_done"
            /\ UNCHANGED <<toolVars, result_clip, current_time, i>>
    /\ UNCHANGED <<toolVars, objVars, argVars, parseVars, layerVars, animVars, animation_configs,
                   parsed_configs, total_duration>>

(* The static methods class OverlayAnimations defines *)
OverlayAnimationsMethods ==
    { "fade_in", "fade_out", "slide_in_from_top", "slide_in_from_bottom",
      "slide_in_from_left", "slide_in_from_right", "slide_out_to_top",
      "slide_out_to_bottom", "zoom_in", "zoom_out", "bounce_in", "pulse", "shake",
      "flip_in", "wipe_in", "combine_animations", "goal_notification_sequence",
      "slide_down_and_up" }

(* The attribute reference OverlayAnimations.<name> finds a method *)
HasMethod(name) == name \in OverlayAnimationsMethods

(* The duration argument of a preset, ticks (default 0.6 s) *)
PresetDurations == {6, 10}

(* AnimationPresets.smooth_entrance_parallel: the default easing, then the *)
(* reference to OverlayAnimations.combine_animations_parallel, which       *)
(* raises AttributeError unless the class has that method                  *)
smooth_entrance_parallel ==
    /\ pc = "combine"
    /\ \E duration \in PresetDurations, easing \in Optional(EasingNames) :
         generator_call' =
           [ name |-> "smooth_entrance_parallel",
             duration |-> duration,
             easing |-> IF easing = None THEN "ease_out_cubic" ELSE ValueOf(easing) ]
    /\ pc' = IF HasMethod("combine_animations_parallel")
             THEN "combine_parallel"
             ELSE "preset_error"
    /\ UNCHANGED <<toolVars, overlayVars, combVars, position_fn, sample>>

NextCombine ==
    \/ combine_animations
    \/ parse_config
    \/ apply_animation
    \/ smooth_entrance_parallel

SpecCombine == CombInit /\ [][NextCombine]_vars

(* The segments of a composed clip, bottom layer first *)
RECURSIVE Flatten(_)
Flatten(c) ==
    IF c.kind = "composite" THEN Flatten(c.layers[1]) \o Flatten(c.layers[2])
    ELSE <<c>>

(* The duration of config c: its own, or 0.5 s for a callable *)
ConfigDuration(c) == IF c.kind = "callable" THEN 5 ELSE c.duration

RECURSIVE SumDurations(_, _)
SumDurations(configs, k) ==
    IF k = 0 THEN 0 ELSE SumDurations(configs, k - 1) + ConfigDuration(configs[k])

(* C5: combine_animations is strictly sequential: segment k starts at the  *)
(* sum of the durations of the segments before it (a bare callable counts  *)
(* 0.5 s), so each starts when the previous one ends, the first at 0, and  *)
(* the composed clip ends at the sum of all durations.                     *)
C5_Sequential ==
    /\ pc = "comb_apply" =>
         /\ current_time = SumDurations(animation_configs, i - 1)
         /\ total_duration = SumDurations(animation_configs, Len(animation_configs))
    /\ (pc = "comb_done" /\ animation_configs # <<>>) =>
         LET segs == Flatten(result_clip)
             n == Len(animation_configs)
         IN  /\ Len(segs) = n
             /\ segs[1].start = 0
             /\ \A k \in 1..n :
                   /\ segs[k].start = SumDurations(animation_configs, k - 1)
                   /\ segs[k].duration = ConfigDuration(animation_configs[k])
             /\ \A k \in 1..(n - 1) :
                   segs[k + 1].start = segs[k].start + segs[k].duration
             /\ result_clip.start + result_clip.duration
                  = SumDurations(animation_configs, n)

C5_Witness ==
    /\ pc = "comb_done"
    /\ animation_configs = << Tuple("slide_in_from_top", 8, 3), Callable("fade_in"),
                              Tuple("fade_in", 3, 2) >>
    /\ Flatten(result_clip)[2].start = 8
    /\ Flatten(result_clip)[3].start = 13
    /\ result_clip.duration = 16

-----------------------------------------------------------------------------
(* Properties of the position functions, on the evaluation last made *)

Evaluated == sample # <<>>
S == sample[1]                  \* the evaluation
F == position_fn[S.row]         \* the closure evaluated

IsLineup == Evaluated /\ F.kind = "lineup"
IsSlide  == Evaluated /\ F.kind = "slide_down_and_up"
IsGoal   == Evaluated /\ F.kind = "goal_notification_sequence"

(* The lineup call's timing, as the caller gave it (defaults 8.0, 0.5, 0.2 s) *)
CallStagger == IF generator_call.stagger_delay = None THEN 2
               ELSE ValueOf(generator_call.stagger_delay)
CallAnim    == IF generator_call.animation_duration = None THEN 5
               ELSE ValueOf(generator_call.animation_duration)
CallDisplay == IF generator_call.display_duration = None THEN 80
               ELSE ValueOf(generator_call.display_duration)
RowIndex    == S.row - 1
Rows        == Len(position_fn)
OffScreenX  == R(-F.container_width - 100)

(* C6: row i of a staggered lineup is off-screen at x = -container_width   *)
(* - 100 for every t < i * stagger and begins its slide-in exactly at      *)
(* t = i * stagger: there the enter phase starts with progress 0, and at   *)
(* every later time of the enter phase the row has left the start position.*)
C6_StaggeredEntry ==
    IsLineup =>
      /\ S.t < RowIndex * CallStagger =>
           S.phase = "wait" /\ S.x = OffScreenX /\ S.y = R(F.final_y)
      /\ S.t = RowIndex * CallStagger =>
           S.phase = "enter" /\ S.progress = R(0) /\ S.x = OffScreenX
      /\ (RowIndex * CallStagger < S.t /\ S.t < RowIndex * CallStagger + CallAnim) =>
           S.phase = "enter" /\ RLt(OffScreenX, S.x)

C6_Witness ==
    /\ IsLineup
    /\ generator_call.stagger_delay = None
    /\ Rows = 3
    /\ RowIndex = 2
    /\ S.t = 4
    /\ S.phase = "enter"
    /\ S.progress = R(0)

(* C7: all n rows begin their slide-out at the same time T = (n-1)*stagger *)
(* + anim_duration + display_duration; at T every row has finished its     *)
(* slide-in and is at its final position, and no row exits before T.       *)
C7_SharedExit ==
    IsLineup =>
      LET T == (Rows - 1) * CallStagger + CallAnim + CallDisplay
      IN  /\ (S.phase = "exit") <=> (S.t >= T)
          /\ \A r \in 1..Rows : (r - 1) * CallStagger + CallAnim <= T
          /\ S.t = T => S.progress = R(0) /\ S.x = R(F.final_x) /\ S.y = R(F.final_y)
          /\ (RowIndex * CallStagger + CallAnim <= S.t /\ S.t <= T) =>
               S.x = R(F.final_x)

C7_Witness ==
    /\ IsLineup
    /\ generator_call.stagger_delay = None
    /\ generator_call.animation_duration = None
    /\ generator_call.display_duration = Some(0)
    /\ Rows = 3
    /\ RowIndex = 2
    /\ S.t = 9
    /\ S.phase = "exit"
    /\ S.x = R(0)

ExampleSlide ==
    [ kind |-> "slide_down_and_up", h |-> 50, base_x |-> 10, base_y |-> 20,
      slide_duration |-> 10, pause_duration |-> 5, easing |-> "ease_in_out_quad" ]

(* C8: for slide_down_and_up with an easing f, f(0) = 0 and f(1) = 1, the  *)
(* position is (x, y) at t = 0, (x, y + h) at t = slide_duration and       *)
(* throughout the pause, and (x, y) again at 2 * slide_duration +          *)
(* pause_duration; x never changes.  With slide 1.0, pause 0.5, base       *)
(* (10, 20), h = 50: (10,20), (10,70), (10,70) in 1.0..1.5, (10,20) at 2.5.*)
C8_SlideDownAndUp ==
    (IsSlide /\ Ease(F.easing, R(0)) = R(0) /\ Ease(F.easing, R(1)) = R(1)) =>
      /\ S.x = R(F.base_x)
      /\ S.t = 0 => S.y = R(F.base_y)
      /\ (F.slide_duration <= S.t /\ S.t <= F.slide_duration + F.pause_duration) =>
           S.y = R(F.base_y + F.h)
      /\ S.t = 2 * F.slide_duration + F.pause_duration => S.y = R(F.base_y)
      /\ F = ExampleSlide =>
           /\ S.t = 0 => <<S.x, S.y>> = <<R(10), R(20)>>
           /\ S.t \in 10..15 => <<S.x, S.y>> = <<R(10), R(70)>>
           /\ S.t = 25 => <<S.x, S.y>> = <<R(10), R(20)>>

C8_Witness ==
    /\ IsSlide
    /\ F = ExampleSlide
    /\ S.t = 25
    /\ S.phase = "exit"
    /\ <<S.x, S.y>> = <<R(10), R(20)>>

(* C9: every t >= 0 falls in exactly one phase, the phases follow in the   *)
(* order (wait,) enter, hold, exit with the stated boundaries, and the     *)
(* progress passed to the easing function in an enter or exit phase lies   *)
(* in [0, 1].                                                              *)
C9_PhasePartition ==
    Evaluated =>
      /\ S.phase \in {"wait", "enter", "hold", "exit"}
      /\ S.eased <=> S.phase \in {"enter", "exit"}
      /\ S.eased => RLe(R(0), S.progress) /\ RLe(S.progress, R(1))
      /\ IsSlide =>
           LET a == F.slide_duration
               b == F.slide_duration + F.pause_duration
           IN  /\ 0 <= a /\ a <= b
               /\ (S.phase = "enter") <=> (S.t <= a)
               /\ (S.phase = "hold")  <=> (a < S.t /\ S.t <= b)
               /\ (S.phase = "exit")  <=> (b < S.t)
      /\ IsGoal =>
           LET a == F.slide_duration
               b == F.slide_duration + F.display_duration
           IN  /\ 0 <= a /\ a <= b
               /\ (S.phase = "enter") <=> (S.t <= a)
               /\ (S.phase = "hold")  <=> (a < S.t /\ S.t <= b)
               /\ (S.phase = "exit")  <=> (b < S.t)
      /\ IsLineup =>
           LET a == F.start_delay
               b == F.start_delay + F.anim_duration
               c == F.total_animation_time + F.display_duration
           IN  /\ 0 <= a /\ a <= b /\ b <= c
               /\ (S.phase = "wait")  <=> (S.t < a)
               /\ (S.phase = "enter") <=> (a <= S.t /\ S.t < b)
               /\ (S.phase = "hold")  <=> (b <= S.t /\ S.t < c)
               /\ (S.phase = "exit")  <=> (c <= S.t)

C9_Witness ==
    /\ IsGoal
    /\ F.display_duration > 0
    /\ S.t = F.slide_duration + F.display_duration
    /\ S.phase = "hold"

(* C10: in slide_down_and_up and goal_notification_sequence the exit       *)
(* progress is clamped to 1: at every t at or after the total duration the *)
(* position is the position at exactly the total duration.                 *)
C10_ExitClamped ==
    ((IsSlide \/ IsGoal) /\ S.t >= ClipEnd(F)) =>
      /\ S.phase = "exit"
      /\ S.progress = R(1)
      /\ S.x = Evaluate(F, ClipEnd(F)).x
      /\ S.y = Evaluate(F, ClipEnd(F)).y

C10_Witness ==
    /\ IsGoal
    /\ F.exit_easing = "ease_in_back"
    /\ S.t = ClipEnd(F) + Overrun
    /\ S.progress = R(1)
    /\ S.y = R(-F.h)

-----------------------------------------------------------------------------
(***************************************************************************)
(* The single-phase generators of OverlayAnimations.  Each attaches one    *)
(* closure of the time t to the clip: an opacity (set_opacity), a position *)
(* (set_position) or a scale (resize).  The closure is kept in position_fn *)
(* with the clip's duration; times and durations are in ticks.             *)
(*                                                                         *)
(* A number is <<v>> with v a rational.  A position is <<x, y>>, each      *)
(* coordinate one of: the string "center"; a number; a function of the     *)
(* screen size, lambda screen: k * screen + c.  All three are written      *)
(* [rel |-> ..., k |-> ..., c |-> ...].                                    *)
(***************************************************************************)
EffectDurations == {5, 8}        \* duration argument: 0.5 s, 0.8 s
ClipDurations   == {3, 8, 12}    \* clip.duration
ClipWidths      == {120}         \* clip.size width
Scales          == { <<1, 2>>, <<11, 10>>, <<6, 5>> }   \* 0.5, 1.1, 1.2

Center       == [rel |-> "center", k |-> R(0), c |-> R(0)]
Px(v)        == [rel |-> "abs",    k |-> R(0), c |-> v]
OfScreen(k, c) == [rel |-> "screen", k |-> k, c |-> c]
Num(v)       == <<v>>
Pos(x, y)    == <<x, y>>

(* What a closure returned, the branch that returned it, and the argument *)
(* it gave the easing function, if it called it                           *)
Eff(value, phase, progress, eased) ==
    [value |-> value, phase |-> phase, progress |-> progress, eased |-> eased]

(* pulse's default easing, lambda t: np.sin(t * np.pi).  The sine has no   *)
(* rational value; Bhaskara's rational approximation stands for it, exact  *)
(* at t = 0, 1/6, 1/2, 5/6 and 1.                                          *)
sine(t) ==
    LET u == RMul(t, RSub(R(1), t))
    IN  RDiv(RMul(R(16), u), RSub(R(5), RMul(R(4), u)))

EaseOrSine(f, t) == IF f = "sine" THEN sine(t) ELSE Ease(f, t)

(* start_time = clip.duration - duration *)
StartTimeZero(clip_duration, duration) == 0

StartTime(clip_duration, duration) == clip_duration - duration

(* fade_in.opacity *)
fade_in_opacity(c, t) ==
    IF t >= c.duration THEN Eff(Num(R(1)), "end", R(0), FALSE)
    ELSE LET progress == Ease(c.easing, Norm(t, c.duration))
         IN  Eff(Num(progress), "animate", Norm(t, c.duration), TRUE)

(* fade_out.opacity *)
fade_out_opacity(c, t) ==
    IF t < c.start_time THEN Eff(Num(R(1)), "pre", R(0), FALSE)
    ELSE LET progress == Ease(c.easing, Norm(t - c.start_time, c.duration))
         IN  Eff(Num(RSub(R(1), progress)), "animate",
                 Norm(t - c.start_time, c.duration), TRUE)

(* slide_in_from_top.pos and bounce_in.pos (the same body) *)
slide_in_from_top_pos(c, t) ==
    IF t >= c.duration THEN Eff(Pos(Center, Px(R(0))), "end", R(0), FALSE)
    ELSE LET progress == Ease(c.easing, Norm(t, c.duration))
         IN  Eff(Pos(Center, Px(RAdd(R(-c.h), RMul(R(c.h), progress)))), "animate",
                 Norm(t, c.duration), TRUE)

(* slide_in_from_bottom.pos *)
slide_in_from_bottom_pos(c, t) ==
    IF t >= c.duration THEN Eff(Pos(Center, Px(R(0))), "end", R(0), FALSE)
    ELSE LET progress == Ease(c.easing, Norm(t, c.duration))
         IN  Eff(Pos(Center, OfScreen(RSub(R(1), progress), R(0))), "animate",
                 Norm(t, c.duration), TRUE)

(* slide_in_from_left.pos *)
slide_in_from_left_pos(c, t) ==
    IF t >= c.duration THEN Eff(Pos(Px(R(0)), Center), "end", R(0), FALSE)
    ELSE LET progress == Ease(c.easing, Norm(t, c.duration))
         IN  Eff(Pos(Px(RAdd(R(-c.w), RMul(R(c.w), progress))), Center), "animate",
                 Norm(t, c.duration), TRUE)

(* slide_in_from_right.pos *)
slide_in_from_right_pos(c, t) ==
    IF t >= c.duration THEN Eff(Pos(OfScreen(R(1), R(-c.w)), Center), "end", R(0), FALSE)
    ELSE LET progress == Ease(c.easing, Norm(t, c.duration))
         IN  Eff(Pos(OfScreen(R(1), RNeg(RMul(R(c.w), progress))), Center), "animate",
                 Norm(t, c.duration), TRUE)

(* slide_out_to_top.pos *)
slide_out_to_top_pos(c, t) ==
    IF t < c.start_time THEN Eff(Pos(Center, Px(R(0))), "pre", R(0), FALSE)
    ELSE LET progress == Ease(c.easing, Norm(t - c.start_time, c.duration))
         IN  Eff(Pos(Center, Px(RMul(R(-c.h), progress))), "animate",
                 Norm(t - c.start_time, c.duration), TRUE)

(* slide_out_to_bottom.pos *)
slide_out_to_bottom_pos(c, t) ==
    IF t < c.start_time THEN Eff(Pos(Center, Px(R(0))), "pre", R(0), FALSE)
    ELSE LET progress == Ease(c.easing, Norm(t - c.start_time, c.duration))
         IN  Eff(Pos(Center, OfScreen(progress, R(0))), "animate",
                 Norm(t - c.start_time, c.duration), TRUE)

(* zoom_in.resize *)
zoom_in_resize(c, t) ==
    IF t >= c.duration THEN Eff(Num(R(1)), "end", R(0), FALSE)
    ELSE LET progress == Ease(c.easing, Norm(t, c.duration))
             scale == RAdd(c.scale, RMul(RSub(R(1), c.scale), progress))
         IN  Eff(Num(scale), "animate", Norm(t, c.duration), TRUE)

(* zoom_out.resize *)
zoom_out_resize(c, t) ==
    IF t < c.start_time THEN Eff(Num(R(1)), "pre", R(0), FALSE)
    ELSE LET progress == Ease(c.easing, Norm(t - c.start_time, c.duration))
             scale == RSub(R(1), RMul(RSub(R(1), c.scale), progress))
         IN  Eff(Num(scale), "animate", Norm(t - c.start_time, c.duration), TRUE)

(* pulse.resize *)
pulse_resize(c, t) ==
    IF t >= c.duration THEN Eff(Num(R(1)), "end", R(0), FALSE)
    ELSE LET progress == EaseOrSine(c.easing, Norm(t, c.duration))
             scale == RAdd(R(1), RMul(RSub(c.scale, R(1)), progress))
         IN  Eff(Num(scale), "animate", Norm(t, c.duration), TRUE)

EntranceGenerators == { "fade_in", "slide_in_from_top", "slide_in_from_bottom",
                        "slide_in_from_left", "slide_in_from_right", "zoom_in",
                        "bounce_in", "pulse" }
ExitGenerators == { "fade_out", "slide_out_to_top", "slide_out_to_bottom", "zoom_out" }

(* Calling the closure attached by generator c.kind *)
EvaluateEffect(c, t) ==
    CASE c.kind = "fade_in"              -> fade_in_opacity(c, t)
      [] c.kind = "fade_out"             -> fade_out_opacity(c, t)
      [] c.kind = "slide_in_from_top"    -> slide_in_from_top_pos(c, t)
      [] c.kind = "slide_in_from_bottom" -> slide_in_from_bottom_pos(c, t)
      [] c.kind = "slide_in_from_left"   -> slide_in_from_left_pos(c, t)
      [] c.kind = "slide_in_from_right"  -> slide_in_from_right_pos(c, t)
      [] c.kind = "slide_out_to_top"     -> slide_out_to_top_pos(c, t)
      [] c.kind = "slide_out_to_bottom"  -> slide_out_to_bottom_pos(c, t)
      [] c.kind = "zoom_in"              -> zoom_in_resize(c, t)
      [] c.kind = "zoom_out"             -> zoom_out_resize(c, t)
      [] c.kind = "bounce_in"            -> slide_in_from_top_pos(c, t)
      [] c.kind = "pulse"                -> pulse_resize(c, t)

(* The state before any generator is called *)
InitEffect ==
    /\ OverlayIdle
    /\ CombIdle
    /\ AnimIdle
    /\ ClipIdle
    /\ TimeIdle
    /\ EaseIdle
    /\ RenderIdle
    /\ pc = "effect"

(* clip.set_opacity(f), clip.set_position(f), clip.resize(f) *)
Attach(name, easing, closure) ==
    /\ generator_call' = [ name |-> name, easing |-> easing ]
    /\ position_fn' = << closure >>

(* OverlayAnimations.fade_in *)
fade_in ==
    /\ pc = "effect"
    /\ position_fn = <<>>
    /\ \E clip_duration \in ClipDurations, duration \in EffectDurations,
          easing \in Optional(EasingNames) :
          Attach("fade_in", easing,
            [ kind |-> "fade_in",
              clip_duration |-> clip_duration,
              duration |-> duration,
              easing |-> IF easing = None THEN "linear" ELSE ValueOf(easing) ])
    /\ UNCHANGED <<toolVars, overlayVars, combVars, sample, pc>>

(* OverlayAnimations.fade_out *)
fade_out ==
    /\ pc = "effect"
    /\ position_fn = <<>>
    /\ \E clip_duration \in ClipDurations, duration \in EffectDurations,
          easing \in Optional(EasingNames) :
          Attach("fade_out", easing,
            [ kind |-> "fade_out",
              clip_duration |-> clip_duration,
              duration |-> duration,
              start_time |-> StartTime(clip_duration, duration),
              easing |-> IF easing = None THEN "linear" ELSE ValueOf(easing) ])
    /\ UNCHANGED <<toolVars, overlayVars, combVars, sample, pc>>

(* OverlayAnimations.slide_in_from_top *)
slide_in_from_top ==
    /\ pc = "effect"
    /\ position_fn = <<>>
    /\ \E clip_duration \in ClipDurations, duration \in EffectDurations,
          easing \in Optional(EasingNames), h \in ClipHeights :
          Attach("slide_in_from_top", easing,
            [ kind |-> "slide_in_from_top",
              clip_duration |-> clip_duration,
              duration |-> duration,
              easing |-> IF easing = None THEN "ease_out_quad" ELSE ValueOf(easing),
              h |-> h ])
    /\ UNCHANGED <<toolVars, overlayVars, combVars, sample, pc>>

(* OverlayAnimations.slide_in_from_bottom *)
slide_in_from_bottom ==
    /\ pc = "effect"
    /\ position_fn = <<>>
    /\ \E clip_duration \in ClipDurations, duration \in EffectDurations,
          easing \in Optional(EasingNames) :
          Attach("slide_in_from_bottom", easing,
            [ kind |-> "slide_in_from_bottom",
              clip_duration |-> clip_duration,
              duration |-> duration,
              easing |-> IF easing = None THEN "ease_out_quad" ELSE ValueOf(easing) ])
    /\ UNCHANGED <<toolVars, overlayVars, combVars, sample, pc>>

(* OverlayAnimations.slide_in_from_left *)
slide_in_from_left ==
    /\ pc = "effect"
    /\ position_fn = <<>>
    /\ \E clip_duration \in ClipDurations, duration \in EffectDurations,
          easing \in Optional(EasingNames), w \in ClipWidths :
          Attach("slide_in_from_left", easing,
            [ kind |-> "slide_in_from_left",
              clip_duration |-> clip_duration,
              duration |-> duration,
              easing |-> IF easing = None THEN "ease_out_quad" ELSE ValueOf(easing),
              w |-> w ])
    /\ UNCHANGED <<toolVars, overlayVars, combVars, sample, pc>>

(* OverlayAnimations.slide_in_from_right *)
slide_in_from_right ==
    /\ pc = "effect"
    /\ position_fn = <<>>
    /\ \E clip_duration \in ClipDurations, duration \in EffectDurations,
          easing \in Optional(EasingNames), w \in ClipWidths :
          Attach("slide_in_from_right", easing,
            [ kind |-> "slide_in_from_right",
              clip_duration |-> clip_duration,
              duration |-> duration,
              easing |-> IF easing = None THEN "ease_out_quad" ELSE ValueOf(easing),
              w |-> w ])
    /\ UNCHANGED <<toolVars, overlayVars, combVars, sample, pc>>

(* OverlayAnimations.slide_out_to_top *)
slide_out_to_top ==
    /\ pc = "effect"
    /\ position_fn = <<>>
    /\ \E clip_duration \in ClipDurations, duration \in EffectDurations,
          easing \in Optional(EasingNames), h \in ClipHeights :
          Attach("slide_out_to_top", easing,
            [ kind |-> "slide_out_to_top",
              clip_duration |-> clip_duration,
              duration |-> duration,
              start_time |-> StartTime(clip_duration, duration),
              easing |-> IF easing = None THEN "ease_in_quad" ELSE ValueOf(easing),
              h |-> h ])
    /\ UNCHANGED <<toolVars, overlayVars, combVars, sample, pc>>

(* OverlayAnimations.slide_out_to_bottom *)
slide_out_to_bottom ==
    /\ pc = "effect"
    /\ position_fn = <<>>
    /\ \E clip_duration \in ClipDurations, duration \in EffectDurations,
          easing \in Optional(EasingNames) :
          Attach("slide_out_to_bottom", easing,
            [ kind |-> "slide_out_to_bottom",
              clip_duration |-> clip_duration,
              duration |-> duration,
              start_time |-> StartTime(clip_duration, duration),
              easing |-> IF easing = None THEN "ease_in_quad" ELSE ValueOf(easing) ])
    /\ UNCHANGED <<toolVars, overlayVars, combVars, sample, pc>>

(* OverlayAnimations.zoom_in *)
zoom_in ==
    /\ pc = "effect"
    /\ position_fn = <<>>
    /\ \E clip_duration \in ClipDurations, duration \in EffectDurations,
          easing \in Optional(EasingNames), scale \in Scales :
          Attach("zoom_in", easing,
            [ kind |-> "zoom_in",
              clip_duration |-> clip_duration,
              duration |-> duration,
              easing |-> IF easing = None THEN "ease_out_cubic" ELSE ValueOf(easing),
              scale |-> scale ])
    /\ UNCHANGED <<toolVars, overlayVars, combVars, sample, pc>>

(* OverlayAnimations.zoom_out *)
zoom_out ==
    /\ pc = "effect"
    /\ position_fn = <<>>
    /\ \E clip_duration \in ClipDurations, duration \in EffectDurations,
          easing \in Optional(EasingNames), scale \in Scales :
          Attach("zoom_out", easing,
            [ kind |-> "zoom_out",
              clip_duration |-> clip_duration,
              duration |-> duration,
              start_time |-> StartTime(clip_duration, duration),
              easing |-> IF easing = None THEN "ease_in_cubic" ELSE ValueOf(easing),
              scale |-> scale ])
    /\ UNCHANGED <<toolVars, overlayVars, combVars, sample, pc>>

(* OverlayAnimations.bounce_in *)
bounce_in ==
    /\ pc = "effect"
    /\ position_fn = <<>>
    /\ \E clip_duration \in ClipDurations, duration \in EffectDurations,
          easing \in Optional(EasingNames), h \in ClipHeights :
          Attach("bounce_in", easing,
            [ kind |-> "bounce_in",
              clip_duration |-> clip_duration,
              duration |-> duration,
              easing |-> IF easing = None THEN "ease_out_bounce" ELSE ValueOf(easing),
              h |-> h ])
    /\ UNCHANGED <<toolVars, overlayVars, combVars, sample, pc>>

(* OverlayAnimations.pulse *)
pulse ==
    /\ pc = "effect"
    /\ position_fn = <<>>
    /\ \E clip_duration \in ClipDurations, duration \in EffectDurations,
          easing \in Optional(EasingNames), scale \in Scales :
          Attach("pulse", easing,
            [ kind |-> "pulse",
              clip_duration |-> clip_duration,
              duration |-> duration,
              easing |-> IF easing = None THEN "sine" ELSE ValueOf(easing),
              scale |-> scale ])
    /\ UNCHANGED <<toolVars, overlayVars, combVars, sample, pc>>

(* One call of the closure: the time and what it returned *)
SampledEffect(t, v) ==
    [ row |-> 1, t |-> t, value |-> v.value, phase |-> v.phase,
      progress |-> v.progress, eased |-> v.eased ]

(* The rendering engine calls the closure for the next frame: frames are   *)
(* one tick apart from t = 0; the clip may have been given a longer        *)
(* duration after the generator ran (set_duration), up to Overrun ticks.   *)
evaluate_effect ==
    /\ pc = "effect"
    /\ position_fn # <<>>
    /\ LET t == IF sample = <<>> THEN 0 ELSE sample[1].t + 1
       IN  /\ t <= position_fn[1].clip_duration + Overrun
           /\ sample' = << SampledEffect(t, EvaluateEffect(position_fn[1], t)) >>
    /\ UNCHANGED <<toolVars, overlayVars, combVars, generator_call, position_fn, pc>>

NextEffect ==
    \/ fade_in
    \/ fade_out
    \/ slide_in_from_top
    \/ slide_in_from_bottom
    \/ slide_in_from_left
    \/ slide_in_from_right
    \/ slide_out_to_top
    \/ slide_out_to_bottom
    \/ zoom_in
    \/ zoom_out
    \/ bounce_in
    \/ pulse
    \/ evaluate_effect

SpecEffect == InitEffect /\ [][NextEffect]_vars

-----------------------------------------------------------------------------
(* Properties of the single-phase generators, on the call last made *)

IsEffect == sample # <<>> /\ pc = "effect"
E == sample[1]                  \* the call and its result
G == position_fn[1]             \* the closure called
IsEntrance == IsEffect /\ G.kind \in EntranceGenerators
IsExit     == IsEffect /\ G.kind \in ExitGenerators

(* The value before the animation window: fully visible, in place, unscaled *)
PreState(c) ==
    CASE c.kind \in {"fade_out", "zoom_out"} -> Num(R(1))
      [] c.kind \in {"slide_out_to_top", "slide_out_to_bottom"} -> Pos(Center, Px(R(0)))
      [] c.kind \in {"fade_in"} -> Num(R(0))
      [] c.kind \in {"zoom_in"} -> Num(c.scale)
      [] c.kind \in {"pulse"} -> Num(R(1))
      [] c.kind \in {"slide_in_from_top", "bounce_in"} -> Pos(Center, Px(R(-c.h)))
      [] c.kind \in {"slide_in_from_bottom"} -> Pos(Center, OfScreen(R(1), R(0)))
      [] c.kind \in {"slide_in_from_left"} -> Pos(Px(R(-c.w)), Center)
      [] c.kind \in {"slide_in_from_right"} -> Pos(OfScreen(R(1), R(0)), Center)

(* The value the animation resolves to *)
EndState(c) ==
    CASE c.kind \in {"fade_in", "zoom_in", "pulse"} -> Num(R(1))
      [] c.kind \in {"slide_in_from_top", "slide_in_from_bottom", "bounce_in"} ->
           Pos(Center, Px(R(0)))
      [] c.kind = "slide_in_from_left"  -> Pos(Px(R(0)), Center)
      [] c.kind = "slide_in_from_right" -> Pos(OfScreen(R(1), R(-c.w)), Center)
      [] c.kind = "fade_out" -> Num(R(0))
      [] c.kind = "slide_out_to_top" -> Pos(Center, Px(R(-c.h)))
      [] c.kind = "slide_out_to_bottom" -> Pos(Center, OfScreen(R(1), R(0)))
      [] c.kind = "zoom_out" -> Num(c.scale)

(* C11: for every single-phase generator the value at a time before the    *)
(* animation window is the pre-state, the value at or after the end of the *)
(* window is the end-state, and the easing function is never given a       *)
(* progress greater than 1.                                                *)
C11_NoExtrapolation ==
    IsEffect =>
      /\ E.eased => RLe(E.progress, R(1))
      /\ IsEntrance => (E.t >= G.duration => E.value = EndState(G))
      /\ IsExit =>
           /\ E.t < G.clip_duration - G.duration => E.value = PreState(G)
           /\ E.t >= G.clip_duration => E.value = EndState(G)

-----------------------------------------------------------------------------
(***************************************************************************)
(* video_clipper.py: parse_time and clip_video.  Times are whole seconds.  *)
(***************************************************************************)

(* parse_time raises ValueError: text that is no number and has no ':',    *)
(* a part that int() rejects, or more than three parts                     *)
parse_time_raises(t) ==
    IF t.kind = "num" THEN FALSE
    ELSE IF Len(t.parts) = 1 THEN t.lex[1] = "word"
    ELSE IF Len(t.parts) \in {2, 3}
         THEN \E j \in 1..Len(t.parts) : t.lex[j] # "int"
         ELSE TRUE

(* parse_time, when it returns *)
parse_time_minutes(t) ==
    IF t.kind = "num" \/ Len(t.parts) = 1 THEN t.parts[1]
    ELSE t.parts[1] * 60 + t.parts[2]

parse_time(t) ==
    IF t.kind = "num" \/ Len(t.parts) = 1 THEN t.parts[1]
    ELSE IF Len(t.parts) = 2 THEN t.parts[1] * 60 + t.parts[2]
    ELSE t.parts[1] * 3600 + t.parts[2] * 60 + t.parts[3]

(* The start and end arguments tried: 0, 50, 100, 150, 330, "90", "90.0",  *)
(* "01:40", "01:02:03", "00:01:30", "bad", "1:2:3:4", "1:30.0"             *)
ClipTimes ==
    { TimeNum(0), TimeNum(50), TimeNum(100), TimeNum(150), TimeNum(330),
      TimeStr(<<90>>), TimeLex(<<90>>, <<"float">>),
      TimeStr(<<1, 40>>), TimeStr(<<1, 2, 3>>), TimeStr(<<0, 1, 30>>),
      TimeLex(<<0>>, <<"word">>), TimeStr(<<1, 2, 3, 4>>),
      TimeLex(<<1, 30>>, <<"int", "float">>) }

ClipVideoDurations == {100, 330}

(* `if start_seconds >= end_seconds: raise ValueError` *)
StartAfterEnd(start, end) == start > end

StartNotBeforeEnd(start, end) == start >= end

(* `if start_seconds >= video.duration: raise ValueError` *)
BeyondDurationStrict(start, duration) == start > duration

BeyondDuration(start, duration) == start >= duration

(* `if end_seconds > video.duration: end_seconds = video.duration` *)
EndUnclamped(end, duration) == end

EndClamped(end, duration) == IF end > duration THEN duration ELSE end

(* Before clip_video is called: the file exists, no handle is open *)
InitClip ==
    /\ show_scoreboard = TRUE
    /\ show_notifications = TRUE
    /\ show_lineups = TRUE
    /\ video_duration \in ClipVideoDurations
    /\ video_open = FALSE
    /\ goals = <<>>
    /\ custom_notifications = None
    /\ lineups = None
    /\ sorted_goals = <<>>
    /\ score_timeline = <<>>
    /\ team1_score = 0
    /\ team2_score = 0
    /\ i = 0
    /\ score_overlays = <<>>
    /\ notifications = <<>>
    /\ lineup_overlays = <<>>
    /\ clips = <<>>
    /\ written = FALSE
    /\ CombIdle
    /\ AnimIdle
    /\ ClipIdle
    /\ TimeIdle
    /\ EaseIdle
    /\ RenderIdle
    /\ pc = "clip_idle"

(* clip_video is called: parse both times, `if start_seconds >= end_seconds` *)
clip_video ==
    /\ pc = "clip_idle"
    /\ \E s \in ClipTimes, e \in ClipTimes :
         /\ clip_start_time' = Some(s)
         /\ clip_end_time' = Some(e)
         /\ start_seconds' = IF parse_time_raises(s) THEN None ELSE Some(parse_time(s))
         /\ end_seconds' = IF parse_time_raises(s) \/ parse_time_raises(e) THEN None
                           ELSE Some(parse_time(e))
         /\ pc' = IF parse_time_raises(s) \/ parse_time_raises(e) THEN "clip_error"
                  ELSE IF StartNotBeforeEnd(parse_time(s), parse_time(e)) THEN "clip_error"
                  ELSE "clip_load"
    /\ UNCHANGED <<overlayVars, combVars, animVars, timeVars, easeVars, renderVars, subclip>>

(* video = VideoFileClip(input_path) *)
VideoFileClip ==
    /\ pc = "clip_load"
    /\ video_open' = TRUE
    /\ pc' = "clip_check"
    /\ UNCHANGED <<show_scoreboard, show_notifications, show_lineups, video_duration,
                   argVars, parseVars, layerVars, i, combVars, animVars, clipVars, timeVars, easeVars, renderVars>>

(* the checks against video.duration, then clip = video.subclip(start, end) *)
subclip_video ==
    /\ pc = "clip_check"
    /\ IF BeyondDuration(ValueOf(start_seconds), video_duration)
       THEN /\ pc' = "clip_error"
            /\ UNCHANGED <<end_seconds, subclip>>
       ELSE /\ end_seconds' = Some(EndClamped(ValueOf(end_seconds), video_duration))
            /\ subclip' = Some([ start |-> ValueOf(start_seconds),
                                 end   |-> ValueOf(end_seconds'),
                                 duration |-> ValueOf(end_seconds') - ValueOf(start_seconds) ])
            /\ pc' = "clip_write"
    /\ UNCHANGED <<overlayVars, combVars, animVars, timeVars, easeVars, renderVars,
                   clip_start_time, clip_end_time, start_seconds>>

(* clip.write_videofile(...): the file is written, or the encoder fails *)
clip_write_videofile ==
    /\ pc = "clip_write"
    /\ \E ok \in BOOLEAN :
         /\ written' = ok
         /\ pc' = IF ok THEN "clip_close" ELSE "clip_error"
    /\ UNCHANGED <<objVars, argVars, parseVars, score_overlays, notifications,
                   lineup_overlays, clips, i, combVars, animVars, clipVars, timeVars, easeVars, renderVars>>

(* clip.close(); video.close() *)
clip_close ==
    /\ pc = "clip_close"
    /\ video_open' = FALSE
    /\ pc' = "clip_done"
    /\ UNCHANGED <<show_scoreboard, show_notifications, show_lineups, video_duration,
                   argVars, parseVars, layerVars, i, combVars, animVars, clipVars, timeVars, easeVars, renderVars>>

NextClip ==
    \/ clip_video
    \/ VideoFileClip
    \/ subclip_video
    \/ clip_write_videofile
    \/ clip_close

SpecClip == InitClip /\ [][NextClip]_vars

-----------------------------------------------------------------------------
(* Properties of combine_animations: validation and layering *)

InvalidConfig(c) == c.kind # "callable" /\ ~(c.kind = "tuple" /\ c.n >= 2)
InvalidAt == { k \in 1..Len(animation_configs) : InvalidConfig(animation_configs[k]) }

(* C17: combine_animations raises ValueError whenever some config is       *)
(* neither a callable nor a tuple of at least two elements, and it does so *)
(* before any animation function is applied to any segment, wherever in    *)
(* the list the invalid config stands.                                     *)
C17_InvalidConfigFailsFast ==
    (pc \in {"comb_parse", "comb_apply", "comb_done", "comb_error"} /\ InvalidAt # {}) =>
      /\ pc \in {"comb_parse", "comb_error"}
      /\ result_clip = <<>>
      /\ current_time = 0
      /\ \A k \in InvalidAt : i <= k

C17_Witness ==
    /\ pc = "comb_error"
    /\ Len(animation_configs) = 3
    /\ InvalidAt = {3}
    /\ i = 3
    /\ result_clip = <<>>

(* C20: for n >= 2 configs the returned composite keeps the input order as *)
(* z-order: flattening the nested composites, bottom layer first, gives    *)
(* the segments in input order, each of them once.                         *)
C20_ZOrder ==
    (pc = "comb_done" /\ Len(animation_configs) >= 2) =>
      LET segs == Flatten(result_clip)
          n == Len(animation_configs)
      IN  /\ Len(segs) = n
          /\ result_clip.kind = "composite"
          /\ \A k \in 1..n :
               /\ segs[k].func = animation_configs[k].func
               /\ segs[k].duration = ConfigDuration(animation_configs[k])
          /\ result_clip.layers[2] = segs[n]

C20_Witness ==
    /\ pc = "comb_done"
    /\ animation_configs = << Tuple("slide_in_from_top", 8, 3), Tuple("fade_in", 3, 2),
                              Callable("fade_in") >>
    /\ Flatten(result_clip)[1].func = "slide_in_from_top"
    /\ Flatten(result_clip)[2].duration = 3
    /\ result_clip.layers[2].func = "fade_in"
    /\ result_clip.layers[2].duration = 5

-----------------------------------------------------------------------------
(* Properties of the error paths of add_overlays and clip_video *)

(* A time string that is not numeric, not "MM:SS" and not "HH:MM:SS" *)
WellFormed(t) ==
    \/ t.kind = "num"
    \/ Len(t.parts) = 1 /\ t.lex[1] \in {"int", "float"}
    \/ Len(t.parts) \in {2, 3} /\ \A j \in 1..Len(t.parts) : t.lex[j] = "int"
Malformed(t) == ~WellFormed(t)

TimesOf(list) == { list[k].time : k \in 1..Len(list) }
OptionalTimesOf(o) == IF o = None THEN {} ELSE TimesOf(ValueOf(o))
OptionalTime(o) == IF o = None THEN {} ELSE {ValueOf(o)}

(* The time values given to the operation in progress *)
InputTimes ==
    TimesOf(goals) \cup OptionalTimesOf(custom_notifications) \cup OptionalTimesOf(lineups)
    \cup OptionalTime(clip_start_time) \cup OptionalTime(clip_end_time)

Ended == pc \in {"done", "error", "clip_done", "clip_error"}

(* C13: a video handle that was opened is closed when the operation ends,  *)
(* after the render as well as after an error raised while it was open.    *)
C13_HandleClosed ==
    Ended => ~video_open

(* C14: a malformed time string anywhere in the inputs of clip_video or    *)
(* add_overlays makes the operation raise before any rendering:            *)
(* write_videofile is never called and no output is produced.              *)
C14_MalformedFailsFast ==
    (\E t \in InputTimes : Malformed(t)) =>
      /\ ~written
      /\ pc \notin {"write", "close", "done", "clip_write", "clip_close", "clip_done"}

BeyondVideo == start_seconds # None /\ ValueOf(start_seconds) >= video_duration

(* C15: clip_video raises whenever the parsed start time is at or beyond   *)
(* the video's duration; no clip is extracted and no output is written.    *)
C15_StartBeyondDuration ==
    BeyondVideo =>
      /\ subclip = None
      /\ ~written
      /\ pc \in {"clip_load", "clip_check", "clip_error"}

C15_Witness ==
    /\ pc = "clip_error"
    /\ video_open
    /\ start_seconds = Some(100)
    /\ video_duration = 100
    /\ subclip = None

(* C16: when the end time exceeds the video's duration and the start time  *)
(* is below it, clip_video does not raise: the clip runs from the start to *)
(* the end of the video, its duration is (video duration - start); a video *)
(* of duration 100 with end_time 150 is cut at 100.                        *)
C16_EndClamped ==
    ( /\ pc \in {"clip_write", "clip_close", "clip_done", "clip_error"}
      /\ start_seconds # None
      /\ end_seconds # None
      /\ ValueOf(start_seconds) < video_duration
      /\ parse_time(ValueOf(clip_end_time)) > video_duration ) =>
      /\ subclip = Some([ start |-> ValueOf(start_seconds),
                          end |-> video_duration,
                          duration |-> video_duration - ValueOf(start_seconds) ])
      /\ (video_duration = 100 /\ clip_end_time = Some(TimeNum(150))) =>
            ValueOf(subclip).end = 100
      /\ pc = "clip_done" => written

C16_Witness ==
    /\ pc = "clip_done"
    /\ video_duration = 100
    /\ clip_start_time = Some(TimeNum(50))
    /\ clip_end_time = Some(TimeNum(150))
    /\ ValueOf(subclip).end = 100
    /\ ValueOf(subclip).duration = 50
    /\ written

(* C19: parse_time returns 3600h + 60m + s for "h:m:s", 60m + s for "m:s"  *)
(* and the value of a number or numeric string ("01:02:03" gives 3723, 330 *)
(* gives 330); it raises for every other string: "bad", four or more      *)
(* parts, a part that is no integer.                                       *)
C19_ParseTime ==
    clip_start_time # None =>
      LET t == ValueOf(clip_start_time)
          p == t.parts
          ints == \A j \in 1..Len(p) : t.lex[j] = "int"
      IN  /\ (t.kind = "str" /\ Len(p) = 3 /\ ints) =>
                start_seconds = Some(3600 * p[1] + 60 * p[2] + p[3])
          /\ (t.kind = "str" /\ Len(p) = 2 /\ ints) =>
                start_seconds = Some(60 * p[1] + p[2])
          /\ (t.kind = "num" \/ (Len(p) = 1 /\ t.lex[1] # "word")) =>
                start_seconds = Some(p[1])
          /\ Malformed(t) => start_seconds = None /\ pc = "clip_error"
          /\ t = TimeStr(<<1, 2, 3>>) => start_seconds = Some(3723)
          /\ t = TimeNum(330) => start_seconds = Some(330)
          /\ t = TimeLex(<<0>>, <<"word">>) => start_seconds = None

C19_Witness ==
    /\ clip_start_time = Some(TimeStr(<<1, 2, 3>>))
    /\ start_seconds = Some(3723)
    /\ pc = "clip_error"

-----------------------------------------------------------------------------
(***************************************************************************)
(* The two time converters, SoccerScoreOverlay._to_seconds and             *)
(* video_clipper.parse_time, applied to the same time value.               *)
(***************************************************************************)
MaxParts == 4        \* parts of a time string

PartValues == {0, 1, 7, 59}

(* Every part an integer literal, or the last part a decimal or a word *)
Lexes(n) == {AllInt(n)} \cup { [AllInt(n) EXCEPT ![n] = x] : x \in {"float", "word"} }

TimeInputs ==
    { TimeNum(n) : n \in PartValues \cup {330} }
    \cup UNION { { TimeLex(ps, lx) : lx \in Lexes(Len(ps)) } :
                   ps \in SeqsUpTo(PartValues, MaxParts) \ {<<>>} }

InitTime ==
    /\ OverlayIdle
    /\ CombIdle
    /\ AnimIdle
    /\ ClipIdle
    /\ TimeIdle
    /\ EaseIdle
    /\ RenderIdle
    /\ pc = "convert"

(* What a converter returned, None if it raised *)
Returned(raises, value) == IF raises THEN None ELSE Some(value)

convert ==
    /\ pc = "convert"
    /\ time_input = None
    /\ \E t \in TimeInputs :
         /\ time_input' = Some(t)
         /\ converted' = Some([ to_seconds |-> Returned(_to_seconds_raises(t), _to_seconds(t)),
                                parse_time |-> Returned(parse_time_raises(t), parse_time(t)) ])
    /\ UNCHANGED <<overlayVars, combVars, animVars, clipVars, easeVars, renderVars, pc>>

NextTimeConversion ==
    \/ convert

SpecTime == InitTime /\ [][NextTimeConversion]_vars

(* C18: _to_seconds accepts "MM:SS", "HH:MM:SS" and numeric seconds, maps  *)
(* "HH:MM:SS" to 3600h + 60m + s and "MM:SS" to 60m + s, and gives the     *)
(* same number of seconds as parse_time for every well-formed time.        *)
C18_SameSeconds ==
    (time_input # None /\ WellFormed(ValueOf(time_input))) =>
      LET t == ValueOf(time_input)
          r == ValueOf(converted)
      IN  /\ r.to_seconds # None
          /\ r.to_seconds = r.parse_time
          /\ (t.kind = "str" /\ Len(t.parts) = 3) =>
                r.to_seconds = Some(3600 * t.parts[1] + 60 * t.parts[2] + t.parts[3])
          /\ (t.kind = "str" /\ Len(t.parts) = 2) =>
                r.to_seconds = Some(60 * t.parts[1] + t.parts[2])

-----------------------------------------------------------------------------
(***************************************************************************)
(* Python floats as they are: IEEE 754 binary64 with round-to-nearest-even. *)
(* A natural number is a sequence of limbs (digits to the base 2^LimbBits), *)
(* least significant first, with no zero limb at the high end.  A float is *)
(* [s, m, e] with value s * m * 2^e, s in {1, -1}, and m either <<>>       *)
(* (zero) or a natural of exactly Precision bits.  Exponents stay far from *)
(* the overflow and subnormal ranges here.                                 *)
(***************************************************************************)
Precision == 53      \* bits of a binary64 significand
LimbBits == 14
Base == 2 ^ LimbBits

RECURSIVE LTrim(_)
LTrim(a) ==
    IF a = <<>> THEN a
    ELSE IF a[Len(a)] = 0 THEN LTrim(SubSeq(a, 1, Len(a) - 1)) ELSE a

RECURSIVE NatLimbs(_)
NatLimbs(n) == IF n = 0 THEN <<>> ELSE <<n % Base>> \o NatLimbs(n \div Base)

RECURSIVE LimbsNat(_)
LimbsNat(a) == IF a = <<>> THEN 0 ELSE a[1] + Base * LimbsNat(Tail(a))

LimbAt(a, j) == IF 1 <= j /\ j <= Len(a) THEN a[j] ELSE 0

RECURSIVE BitLen(_)
BitLen(n) == IF n = 0 THEN 0 ELSE 1 + BitLen(n \div 2)

(* Number of bits of a *)
LBitLen(a) == IF a = <<>> THEN 0 ELSE (Len(a) - 1) * LimbBits + BitLen(a[Len(a)])

(* Bit j of a, the lowest being bit 1 *)
LBit(a, j) == (LimbAt(a, ((j - 1) \div LimbBits) + 1) \div (2 ^ ((j - 1) % LimbBits))) % 2

(* a * 2^k and a \div 2^k *)
ShlBits(a, r) ==
    LTrim([j \in 1..(Len(a) + 1) |->
             ((LimbAt(a, j) * (2 ^ r)) % Base) + (LimbAt(a, j - 1) \div (2 ^ (LimbBits - r)))])

LShl(a, k) ==
    IF a = <<>> THEN a
    ELSE [j \in 1..(k \div LimbBits) |-> 0] \o ShlBits(a, k % LimbBits)

ShrBits(a, r) ==
    LTrim([j \in 1..Len(a) |->
             (a[j] \div (2 ^ r)) + ((LimbAt(a, j + 1) % (2 ^ r)) * (2 ^ (LimbBits - r)))])

LShr(a, k) ==
    IF k \div LimbBits >= Len(a) THEN <<>>
    ELSE ShrBits(SubSeq(a, (k \div LimbBits) + 1, Len(a)), k % LimbBits)

(* Some bit among the k lowest bits of a is set *)
LowBitsSet(a, k) == \E j \in 1..k : LBit(a, j) = 1

RECURSIVE LAddFrom(_, _, _, _)
LAddFrom(a, b, j, carry) ==
    IF j > Len(a) /\ j > Len(b)
    THEN IF carry = 0 THEN <<>> ELSE <<carry>>
    ELSE LET sum == LimbAt(a, j) + LimbAt(b, j) + carry
         IN  <<sum % Base>> \o LAddFrom(a, b, j + 1, sum \div Base)

LAdd(a, b) == LAddFrom(a, b, 1, 0)

(* a - b for a >= b *)
RECURSIVE LSubFrom(_, _, _, _)
LSubFrom(a, b, j, borrow) ==
    IF j > Len(a) THEN <<>>
    ELSE LET diff == LimbAt(a, j) - LimbAt(b, j) - borrow
         IN  <<diff % Base>> \o LSubFrom(a, b, j + 1, IF diff < 0 THEN 1 ELSE 0)

LSub(a, b) == LTrim(LSubFrom(a, b, 1, 0))

RECURSIVE LLtFrom(_, _, _)
LLtFrom(a, b, j) ==
    IF j = 0 THEN FALSE
    ELSE IF a[j] # b[j] THEN a[j] < b[j]
    ELSE LLtFrom(a, b, j - 1)

LLt(a, b) ==
    IF Len(a) # Len(b) THEN Len(a) < Len(b) ELSE LLtFrom(a, b, Len(a))

(* a times one limb *)
RECURSIVE LMulLimbFrom(_, _, _, _)
LMulLimbFrom(a, limb, j, carry) ==
    IF j > Len(a)
    THEN IF carry = 0 THEN <<>> ELSE <<carry>>
    ELSE LET prod == a[j] * limb + carry
         IN  <<prod % Base>> \o LMulLimbFrom(a, limb, j + 1, prod \div Base)

LMulLimb(a, limb) == IF limb = 0 THEN <<>> ELSE LMulLimbFrom(a, limb, 1, 0)

RECURSIVE LMulFrom(_, _, _, _)
LMulFrom(a, b, j, acc) ==
    IF Len(acc) >= 0 /\ j > Len(a) THEN acc
    ELSE LMulFrom(a, b, j + 1, LAdd(acc, LShl(LMulLimb(b, a[j]), (j - 1) * LimbBits)))

LMul(a, b) == LMulFrom(a, b, 1, <<>>)

(* Long division by d # 0, one bit at a time.  DivLimb brings down the     *)
(* bits of one limb of the dividend, from bit j down, onto the remainder   *)
(* r < d: <<quotient limb, remainder>>.                                    *)
RECURSIVE DivLimb(_, _, _, _, _)
DivLimb(limb, d, j, q, r) ==
    IF r = r /\ j = 0 THEN <<q, r>>
    ELSE LET r2 == LAdd(ShlBits(r, 1), NatLimbs((limb \div (2 ^ (j - 1))) % 2))
         IN  IF LLt(r2, d)
             THEN DivLimb(limb, d, j - 1, 2 * q, r2)
             ELSE DivLimb(limb, d, j - 1, 2 * q + 1, LSub(r2, d))

(* The limbs of n from limb j down: <<quotient, remainder>> *)
RECURSIVE LDivFrom(_, _, _, _, _)
LDivFrom(n, d, j, q, r) ==
    IF Len(q) >= 0 /\ j = 0 THEN <<LTrim(q), r>>
    ELSE LET step == DivLimb(n[j], d, LimbBits, 0, r)
         IN  LDivFrom(n, d, j - 1, <<step[1]>> \o q, step[2])

LDivMod(n, d) == LDivFrom(n, d, Len(n), <<>>, <<>>)

Float(s, m, e) == [s |-> s, m |-> m, e |-> e]

IsZero(x) == x.m = <<>>

(* Round-to-nearest-even of s * m * 2^e, m any natural *)
RoundUp(s, kept, e) ==
    IF LBitLen(kept) > Precision THEN Float(s, LShr(kept, 1), e + 1) ELSE Float(s, kept, e)

(* m has k bits too many: keep the high Precision bits, round on the rest *)
RoundOff(s, m, e, k) ==
    IF LBit(m, k) = 1 /\ (LowBitsSet(m, k - 1) \/ LBit(m, k + 1) = 1)
    THEN RoundUp(s, LAdd(LShr(m, k), <<1>>), e + k)
    ELSE Float(s, LShr(m, k), e + k)

Round(s, m, e) ==
    IF m = <<>> THEN Float(s, <<>>, 0)
    ELSE IF LBitLen(m) <= Precision
         THEN Float(s, LShl(m, Precision - LBitLen(m)), e - (Precision - LBitLen(m)))
    ELSE RoundOff(s, m, e, LBitLen(m) - Precision)

FromInt(n) == Round(IF n < 0 THEN -1 ELSE 1, NatLimbs(IF n < 0 THEN -n ELSE n), 0)

FNeg(x) == Float(-x.s, x.m, x.e)

(* The exact sum of two aligned magnitudes with signs, then rounded *)
AddAligned(sx, mx, sy, my, e) ==
    IF sx = sy THEN Round(sx, LAdd(mx, my), e)
    ELSE IF mx = my THEN Float(1, <<>>, 0)
    ELSE IF LLt(mx, my) THEN Round(sy, LSub(my, mx), e)
    ELSE Round(sx, LSub(mx, my), e)

FAdd(x, y) ==
    IF IsZero(x) THEN (IF IsZero(y) THEN Float(IF x.s = y.s THEN x.s ELSE 1, <<>>, 0) ELSE y)
    ELSE IF IsZero(y) THEN x
    ELSE LET e == IF x.e < y.e THEN x.e ELSE y.e
         IN  AddAligned(x.s, LShl(x.m, x.e - e), y.s, LShl(y.m, y.e - e), e)

FSub(x, y) == FAdd(x, FNeg(y))

FMul(x, y) ==
    IF IsZero(x) \/ IsZero(y) THEN Float(x.s * y.s, <<>>, 0)
    ELSE Round(x.s * y.s, LMul(x.m, y.m), x.e + y.e)

(* x / y for y # 0: the quotient to more bits than the significand has,   *)
(* with a sticky bit below them for the remainder                          *)
DivRounded(s, qr, e) ==
    Round(s, LAdd(LShl(qr[1], 1), IF qr[2] = <<>> THEN <<>> ELSE <<1>>), e - 1)

FDiv(x, y) ==
    IF IsZero(x) THEN Float(x.s * y.s, <<>>, 0)
    ELSE DivRounded(x.s * y.s, LDivMod(LShl(x.m, Precision + 3), y.m),
                    x.e - y.e - (Precision + 3))

FEq(x, y) == (IsZero(x) /\ IsZero(y)) \/ x = y

FLt(x, y) == LET d == FSub(x, y) IN ~IsZero(d) /\ d.s = -1

(* A decimal literal n / d of the source, as the Python parser reads it *)
Lit(n, d) == FDiv(FromInt(n), FromInt(d))

Zero == FromInt(0)
One  == FromInt(1)

(* x is a whole number *)
IsIntegral(x) == IsZero(x) \/ x.e >= 0 \/ ~LowBitsSet(x.m, -x.e)

(* The whole number x as an integer *)
ToInt(x) ==
    IF IsZero(x) THEN 0
    ELSE IF x.e >= 0 THEN x.s * LimbsNat(LShl(x.m, x.e))
    ELSE x.s * LimbsNat(LShr(x.m, -x.e))

(* 2 ** x and pow(x, n), where the C library's pow is exact: x a whole     *)
(* number for 2 ** x; pow(x, 2) and pow(x, 3) with an exactly              *)
(* representable result.  Other arguments are outside this model.          *)
pow2(x) == CASE IsIntegral(x) -> Round(1, <<1>>, ToInt(x))

pow(x, n) ==
    CASE n = 2 -> FMul(x, x)
      [] n = 3 -> FMul(FMul(x, x), x)

(* np.pi = 0x1.921fb54442d18p+1 *)
RECURSIVE HexLimbs(_, _)
HexLimbs(hs, acc) ==
    IF Len(acc) >= 0 /\ hs = <<>> THEN acc
    ELSE HexLimbs(Tail(hs), LAdd(LShl(acc, 4), NatLimbs(Head(hs))))

np_pi == Round(1, HexLimbs(<<1, 9, 2, 1, 15, 11, 5, 4, 4, 4, 2, 13, 1, 8>>, <<>>), -51)

(* np.sin, where it is exact: sin(0) = 0.  Other arguments are outside     *)
(* this model.                                                             *)
np_sin(x) == CASE IsZero(x) -> x

(***************************************************************************)
(* class Easing, every function, in float arithmetic.  The constants and   *)
(* the order of the operations are those of the source.                    *)
(***************************************************************************)
Two == FromInt(2)
Half == Lit(5, 10)

Easing_linear(t) == t
Easing_ease_in_quad(t) == FMul(t, t)
Easing_ease_out_quad(t) == FMul(t, FSub(Two, t))
Easing_ease_in_out_quad(t) ==
    IF FLt(t, Half)
    THEN FMul(FMul(Two, t), t)
    ELSE FAdd(FromInt(-1), FMul(FSub(FromInt(4), FMul(Two, t)), t))
Easing_ease_in_cubic(t) == FMul(FMul(t, t), t)
Easing_ease_out_cubic(t) ==
    LET u == FSub(t, One) IN FAdd(FMul(FMul(u, u), u), One)
Easing_ease_in_out_cubic(t) ==
    IF FLt(t, Half)
    THEN FMul(FMul(FMul(FromInt(4), t), t), t)
    ELSE LET v == FSub(FMul(Two, t), Two)
         IN  FAdd(FMul(FMul(FSub(t, One), v), v), One)
Easing_ease_in_quart(t) == FMul(FMul(FMul(t, t), t), t)
QuartOf(u) == FMul(FMul(FMul(u, u), u), u)
Easing_ease_out_quart(t) == FSub(One, QuartOf(FSub(t, One)))
EightQuartOf(u) == FMul(FMul(FMul(FMul(FromInt(8), u), u), u), u)
Easing_ease_in_out_quart(t) ==
    IF FLt(t, Half)
    THEN EightQuartOf(t)
    ELSE FSub(One, EightQuartOf(FSub(t, One)))
Easing_ease_in_expo(t) ==
    IF FEq(t, Zero) THEN Zero ELSE pow2(FMul(FromInt(10), FSub(t, One)))
Easing_ease_out_expo(t) ==
    IF FEq(t, One) THEN One ELSE FSub(One, pow2(FMul(FromInt(-10), t)))
Easing_ease_in_out_expo(t) ==
    IF FEq(t, Zero) \/ FEq(t, One) THEN t
    ELSE IF FLt(t, Half)
    THEN FDiv(pow2(FSub(FMul(FromInt(20), t), FromInt(10))), Two)
    ELSE FDiv(FSub(Two, pow2(FAdd(FMul(FromInt(-20), t), FromInt(10)))), Two)

back_c1 == Lit(170158, 100000)
back_c3 == FAdd(back_c1, One)
back_c2 == FMul(back_c1, Lit(1525, 1000))

Easing_ease_in_back(t) ==
    FSub(FMul(FMul(FMul(back_c3, t), t), t), FMul(FMul(back_c1, t), t))
BackOut(u) == FAdd(FAdd(One, FMul(back_c3, pow(u, 3))), FMul(back_c1, pow(u, 2)))
Easing_ease_out_back(t) == BackOut(FSub(t, One))
Easing_ease_in_out_back(t) ==
    IF FLt(t, Half)
    THEN FDiv(FMul(pow(FMul(Two, t), 2),
                   FSub(FMul(FMul(FAdd(back_c2, One), Two), t), back_c2)), Two)
    ELSE FDiv(FAdd(FMul(pow(FSub(FMul(Two, t), Two), 2),
                        FAdd(FMul(FAdd(back_c2, One), FSub(FMul(t, Two), Two)), back_c2)),
                   Two), Two)

elastic_c4 == FDiv(FMul(Two, np_pi), FromInt(3))
elastic_c5 == FDiv(FMul(Two, np_pi), Lit(45, 10))

Easing_ease_in_elastic(t) ==
    IF FEq(t, Zero) \/ FEq(t, One) THEN t
    ELSE FMul(FNeg(pow2(FSub(FMul(FromInt(10), t), FromInt(10)))),
              np_sin(FMul(FSub(FMul(t, FromInt(10)), Lit(1075, 100)), elastic_c4)))
Easing_ease_out_elastic(t) ==
    IF FEq(t, Zero) \/ FEq(t, One) THEN t
    ELSE FAdd(FMul(pow2(FMul(FromInt(-10), t)),
                   np_sin(FMul(FSub(FMul(t, FromInt(10)), Lit(75, 100)), elastic_c4))), One)
ElasticSin(t) == np_sin(FMul(FSub(FMul(FromInt(20), t), Lit(11125, 1000)), elastic_c5))
Easing_ease_in_out_elastic(t) ==
    IF FEq(t, Zero) \/ FEq(t, One) THEN t
    ELSE IF FLt(t, Half)
    THEN FDiv(FNeg(FMul(pow2(FSub(FMul(FromInt(20), t), FromInt(10))), ElasticSin(t))), Two)
    ELSE FAdd(FDiv(FMul(pow2(FAdd(FMul(FromInt(-20), t), FromInt(10))), ElasticSin(t)), Two), One)

bounce_n1 == Lit(75625, 10000)
bounce_d1 == Lit(275, 100)
BounceArc(u, offset) == FAdd(FMul(FMul(bounce_n1, u), u), offset)
Easing_ease_out_bounce(t) ==
    IF FLt(t, FDiv(One, bounce_d1)) THEN FMul(FMul(bounce_n1, t), t)
    ELSE IF FLt(t, FDiv(Two, bounce_d1))
         THEN BounceArc(FSub(t, FDiv(Lit(15, 10), bounce_d1)), Lit(75, 100))
    ELSE IF FLt(t, FDiv(Lit(25, 10), bounce_d1))
         THEN BounceArc(FSub(t, FDiv(Lit(225, 100), bounce_d1)), Lit(9375, 10000))
    ELSE BounceArc(FSub(t, FDiv(Lit(2625, 1000), bounce_d1)), Lit(984375, 1000000))
Easing_ease_in_bounce(t) == FSub(One, Easing_ease_out_bounce(FSub(One, t)))
Easing_ease_in_out_bounce(t) ==
    IF FLt(t, Half)
    THEN FDiv(FSub(One, Easing_ease_out_bounce(FSub(One, FMul(Two, t)))), Two)
    ELSE FDiv(FAdd(One, Easing_ease_out_bounce(FSub(FMul(Two, t), One))), Two)

EasingFunctions ==
    { "linear", "ease_in_quad", "ease_out_quad", "ease_in_out_quad",
      "ease_in_cubic", "ease_out_cubic", "ease_in_out_cubic",
      "ease_in_quart", "ease_out_quart", "ease_in_out_quart",
      "ease_in_expo", "ease_out_expo", "ease_in_out_expo",
      "ease_in_back", "ease_out_back", "ease_in_out_back",
      "ease_in_elastic", "ease_out_elastic", "ease_in_out_elastic",
      "ease_out_bounce", "ease_in_bounce", "ease_in_out_bounce" }

Easing(f, t) ==
    CASE f = "linear"              -> Easing_linear(t)
      [] f = "ease_in_quad"        -> Easing_ease_in_quad(t)
      [] f = "ease_out_quad"       -> Easing_ease_out_quad(t)
      [] f = "ease_in_out_quad"    -> Easing_ease_in_out_quad(t)
      [] f = "ease_in_cubic"       -> Easing_ease_in_cubic(t)
      [] f = "ease_out_cubic"      -> Easing_ease_out_cubic(t)
      [] f = "ease_in_out_cubic"   -> Easing_ease_in_out_cubic(t)
      [] f = "ease_in_quart"       -> Easing_ease_in_quart(t)
      [] f = "ease_out_quart"      -> Easing_ease_out_quart(t)
      [] f = "ease_in_out_quart"   -> Easing_ease_in_out_quart(t)
      [] f = "ease_in_expo"        -> Easing_ease_in_expo(t)
      [] f = "ease_out_expo"       -> Easing_ease_out_expo(t)
      [] f = "ease_in_out_expo"    -> Easing_ease_in_out_expo(t)
      [] f = "ease_in_back"        -> Easing_ease_in_back(t)
      [] f = "ease_out_back"       -> Easing_ease_out_back(t)
      [] f = "ease_in_out_back"    -> Easing_ease_in_out_back(t)
      [] f = "ease_in_elastic"     -> Easing_ease_in_elastic(t)
      [] f = "ease_out_elastic"    -> Easing_ease_out_elastic(t)
      [] f = "ease_in_out_elastic" -> Easing_ease_in_out_elastic(t)
      [] f = "ease_out_bounce"     -> Easing_ease_out_bounce(t)
      [] f = "ease_in_bounce"      -> Easing_ease_in_bounce(t)
      [] f = "ease_in_out_bounce"  -> Easing_ease_in_out_bounce(t)

(* The progress values the functions are evaluated at: eighths of the      *)
(* unit interval, which floats hold exactly.  The elastic functions call   *)
(* np.sin and the exponential ones a fractional power of two between the   *)
(* end points; they are evaluated only where no such call is made.         *)
EasingSamples == { FDiv(FromInt(k), FromInt(8)) : k \in 0..8 }

AtEndPoint(t) == FEq(t, Zero) \/ FEq(t, One)

Modelled(f, t) ==
    CASE f \in {"ease_in_elastic", "ease_out_elastic", "ease_in_out_elastic"} -> AtEndPoint(t)
      [] f \in {"ease_in_expo", "ease_out_expo", "ease_in_out_expo"} -> IsIntegral(FMul(FromInt(10), t))
      [] OTHER -> TRUE

InitEasing ==
    /\ OverlayIdle
    /\ CombIdle
    /\ AnimIdle
    /\ ClipIdle
    /\ TimeIdle
    /\ RenderIdle
    /\ pc = "ease"
    /\ \E f \in EasingFunctions : \E t \in EasingSamples :
         /\ Modelled(f, t)
         /\ easing_call = Some([f |-> f, t |-> t])
    /\ easing_value = None

(* One call f(t) *)
call_easing ==
    /\ pc = "ease"
    /\ easing_value = None
    /\ easing_value' = Some(Easing(ValueOf(easing_call).f, ValueOf(easing_call).t))
    /\ UNCHANGED <<overlayVars, combVars, animVars, clipVars, timeVars, renderVars,
                   easing_call, pc>>

NextEasing ==
    \/ call_easing

SpecEasing == InitEasing /\ [][NextEasing]_vars

(* C21: every easing function f, the back, elastic and exponential ones    *)
(* included, returns exactly 0 at 0 and exactly 1 at 1.                    *)
C21_EndPoints ==
    easing_value # None =>
      /\ FEq(ValueOf(easing_call).t, Zero) => FEq(ValueOf(easing_value), Zero)
      /\ FEq(ValueOf(easing_call).t, One) => FEq(ValueOf(easing_value), One)


-----------------------------------------------------------------------------
(* The easing functions by family *)
EaseOutFamily == { "ease_out_quad", "ease_out_cubic", "ease_out_bounce" }
EaseInFamily  == { "ease_in_quad", "ease_in_cubic", "ease_in_back" }

(* A generator was called without an easing argument *)
DefaultEasing == pc = "effect" /\ position_fn # <<>> /\ generator_call.easing = None

(* C22: called without an easing argument, every entrance generator        *)
(* (fade_in, slide_in_from_*, zoom_in, bounce_in) uses an ease-out easing  *)
(* function and every exit generator (fade_out, slide_out_to_*, zoom_out)  *)
(* an ease-in one.                                                         *)
C22_DefaultEasing ==
    DefaultEasing =>
      /\ G.kind \in EntranceGenerators \ {"pulse"} => G.easing \in EaseOutFamily
      /\ G.kind \in ExitGenerators => G.easing \in EaseInFamily


-----------------------------------------------------------------------------
PresetCalled == pc \in {"combine_parallel", "preset_error"}

(* C23: the parallel composition that smooth_entrance_parallel asks for    *)
(* (a fade-in and a slide-in on the same clip) succeeds, and in the clip   *)
(* it returns every segment starts at the same time and the duration is    *)
(* the largest of the segments' durations.                                 *)
C23_ParallelComposition ==
    PresetCalled =>
      /\ pc # "preset_error"
      /\ result_clip # <<>>
      /\ \A j, k \in 1..Len(Flatten(result_clip)) :
            Flatten(result_clip)[j].start = Flatten(result_clip)[k].start
      /\ \A j \in 1..Len(Flatten(result_clip)) :
            result_clip.duration >= Flatten(result_clip)[j].duration
      /\ \E j \in 1..Len(Flatten(result_clip)) :
            result_clip.duration = Flatten(result_clip)[j].duration


-----------------------------------------------------------------------------
(***************************************************************************)
(* The closures of the generators called in any order, any number of       *)
(* times, as a renderer that seeks or previews does; shake included.       *)
(***************************************************************************)
MaxDraws == 4        \* numbers np.random hands out in one behaviour

SampleTimes == {0, 3, 9}           \* ticks
ShakeDurations == {3, 5}           \* duration argument: 0.3 s, 0.5 s
Intensities == {1, 2}              \* intensity argument

(* np.random.randint(low, high): an integer from low up to high - 1 *)
randint(low, high) == low..(high - 1)

(* shake.pos for t < duration, given the two numbers drawn; original_pos   *)
(* is the clip's position function, which returns base_x, base_y           *)
shake_pos(c, shake_x, shake_y) ==
    [ callable |-> FALSE, x |-> c.base_x + shake_x, y |-> c.base_y + shake_y ]

(* shake.pos for t >= duration: `return original_pos`, the function itself *)
original_pos(c) == [ callable |-> TRUE, x |-> c.base_x, y |-> c.base_y ]

(* OverlayAnimations.shake *)
shake ==
    /\ pc = "effect"
    /\ position_fn = <<>>
    /\ \E duration \in ShakeDurations, intensity \in Intensities,
          base_position \in BasePositions :
          /\ generator_call' = [ name |-> "shake", easing |-> None ]
          /\ position_fn' = << [ kind |-> "shake",
                                 duration |-> duration,
                                 intensity |-> intensity,
                                 base_x |-> base_position[1],
                                 base_y |-> base_position[2] ] >>
    /\ UNCHANGED <<toolVars, overlayVars, combVars, sample, pc>>

(* What a closure without random numbers returns at t *)
ReturnValue(c, t) ==
    IF c.kind \in {"slide_down_and_up", "goal_notification_sequence"}
    THEN << Evaluate(c, t).x, Evaluate(c, t).y >>
    ELSE EvaluateEffect(c, t).value

Record(t, v) ==
    /\ sample' = << [ row |-> 1, t |-> t, value |-> v ] >>
    /\ evaluations' = evaluations \cup { [ t |-> t, value |-> v ] }

(* The engine calls the closure at some time t *)
evaluate_any_order ==
    /\ pc \in {"effect", "animation"}
    /\ position_fn # <<>>
    /\ \E t \in SampleTimes :
         LET c == position_fn[1]
         IN  IF c.kind = "shake"
             THEN IF t < c.duration
                  THEN /\ np_random + 2 <= MaxDraws
                       /\ \E shake_x, shake_y \in randint(-c.intensity, c.intensity) :
                            Record(t, shake_pos(c, shake_x, shake_y))
                       /\ np_random' = np_random + 2
                  ELSE /\ Record(t, original_pos(c))
                       /\ np_random' = np_random
             ELSE /\ Record(t, ReturnValue(c, t))
                  /\ np_random' = np_random
    /\ UNCHANGED <<clipVars, timeVars, easeVars, overlayVars, combVars, generator_call,
                   position_fn, pc>>

InitSample ==
    /\ OverlayIdle
    /\ CombIdle
    /\ AnimIdle
    /\ ClipIdle
    /\ TimeIdle
    /\ EaseIdle
    /\ RenderIdle
    /\ pc \in {"effect", "animation"}

NextSample ==
    \/ fade_in
    \/ fade_out
    \/ slide_in_from_top
    \/ slide_in_from_bottom
    \/ slide_in_from_left
    \/ slide_in_from_right
    \/ slide_out_to_top
    \/ slide_out_to_bottom
    \/ zoom_in
    \/ zoom_out
    \/ bounce_in
    \/ pulse
    \/ shake
    \/ slide_down_and_up
    \/ goal_notification_sequence
    \/ evaluate_any_order

SpecSample == InitSample /\ [][NextSample]_vars

(* C24: every function produced by a generator, shake's included, is       *)
(* stateless: two calls at the same time t return the same value,          *)
(* whatever was called in between and in whatever order.                   *)
C24_Stateless ==
    \A e1, e2 \in evaluations : e1.t = e2.t => e1.value = e2.value


-----------------------------------------------------------------------------
(* add_overlays is past its notification steps *)
NotificationsDone == pc \in {"lineups", "layer", "write", "close", "done"}

(* C25: with notifications enabled, goal notifications are generated       *)
(* exactly when custom_notifications is None: then one "GOAL" notification *)
(* per goal, starting at the goal's timestamp, and none for the (0, 0, 0)  *)
(* baseline; with custom_notifications given, an empty list included, no   *)
(* "GOAL" notification and one notification per custom entry, starting at  *)
(* the entry's time; with notifications disabled, none at all.             *)
C25_Notifications ==
    NotificationsDone =>
      /\ (show_notifications /\ custom_notifications = None) =>
            /\ Len(notifications) = Len(goals)
            /\ \A k \in 1..Len(notifications) :
                  /\ notifications[k].text = "GOAL"
                  /\ notifications[k].start = score_timeline[k + 1][1]
      /\ (show_notifications /\ custom_notifications # None) =>
            /\ Len(notifications) = Len(ValueOf(custom_notifications))
            /\ \A k \in 1..Len(notifications) :
                  /\ notifications[k].text # "GOAL"
                  /\ notifications[k].start =
                        _to_seconds(ValueOf(custom_notifications)[k].time)
      /\ ~show_notifications => notifications = <<>>

C25_Witness ==
    /\ pc = "done"
    /\ show_notifications
    /\ custom_notifications = None
    /\ Len(goals) >= 2
    /\ Len(notifications) = Len(goals)
    /\ notifications[1].start > 0

(* The same with a custom list: no "GOAL" notification although goals were *)
(* scored                                                                  *)
C25_CustomWitness ==
    /\ pc = "done"
    /\ show_notifications
    /\ custom_notifications # None
    /\ goals # <<>>
    /\ Len(notifications) = Len(ValueOf(custom_notifications))

-----------------------------------------------------------------------------
(* The bucket a create_lineup_overlay call worked with, read off what it   *)
(* built: the container width and the row height are the bucket's          *)
Buckets == {"low", "medium", "high"}

UsedBucket(res) ==
    /\ position_fn[2].container_width = LineupWidth(res)
    /\ position_fn[2].final_y = DIMENSIONS[res][1]

LineupCalled ==
    /\ pc = "animation"
    /\ position_fn # <<>>
    /\ generator_call.name = "create_lineup_overlay"

(* C26: the resolution bucket of a video follows the fixed breakpoints:    *)
(* width <= 720 is 'low', 720 < width <= 1280 is 'medium', width > 1280 is *)
(* 'high'; every width gets exactly one bucket, and that bucket has an     *)
(* entry in DIMENSIONS, FONT_SIZES and TEXT_MARGIN_FROM_ACCENT.            *)
C26_ResolutionBucket ==
    LineupCalled =>
        /\ generator_call.video_width <= 720 => UsedBucket("low")
        /\ (720 < generator_call.video_width /\ generator_call.video_width <= 1280)
              => UsedBucket("medium")
        /\ generator_call.video_width > 1280 => UsedBucket("high")
        /\ Cardinality({ res \in Buckets : UsedBucket(res) }) = 1
        /\ \A res \in Buckets :
              UsedBucket(res) =>
                  /\ res \in DOMAIN DIMENSIONS
                  /\ res \in DOMAIN FONT_SIZES
                  /\ res \in DOMAIN TEXT_MARGIN_FROM_ACCENT

(* A video exactly on the upper breakpoint of 'medium' *)
C26_Witness ==
    /\ LineupCalled
    /\ generator_call.video_width = MEDIUM_RES_THRESHOLD
    /\ UsedBucket("medium")

-----------------------------------------------------------------------------
(* The composite has been built *)
Composited == pc \in {"write", "close", "done"}

(* Height of a clip's group in the composite, bottom first *)
Layer(tag) ==
    CASE tag[1] = "video" -> 0
      [] tag[1] = "lineup" -> 1
      [] tag[1] = "notification" -> 2
      [] tag[1] = "score" -> 3

ClipsOf(kind) == { k \in 1..Len(clips) : clips[k][1] = kind }

(* C27: in the composite the source video is the bottom layer, then come   *)
(* all lineup overlays, then all notifications, then all score overlays on *)
(* top, each group in creation order; a group whose show_* flag is false   *)
(* contributes no clip.                                                    *)
C27_LayerOrder ==
    Composited =>
      /\ clips[1] = <<"video", 1>>
      /\ ClipsOf("video") = {1}
      /\ \A j, k \in 1..Len(clips) :
            j < k => \/ Layer(clips[j]) < Layer(clips[k])
                     \/ /\ Layer(clips[j]) = Layer(clips[k])
                        /\ clips[j][2] < clips[k][2]
      /\ Cardinality(ClipsOf("lineup")) = IF show_lineups THEN Len(lineup_overlays) ELSE 0
      /\ Cardinality(ClipsOf("notification")) =
            IF show_notifications THEN Len(notifications) ELSE 0
      /\ Cardinality(ClipsOf("score")) = IF show_scoreboard THEN Len(score_overlays) ELSE 0

C27_Witness ==
    /\ pc = "done"
    /\ show_lineups /\ show_notifications /\ show_scoreboard
    /\ lineup_overlays # <<>>
    /\ Len(notifications) >= 2
    /\ Len(score_overlays) >= 3
    /\ Len(clips) = 1 + Len(lineup_overlays) + Len(notifications) + Len(score_overlays)

(* C28: whenever clip_video reaches video.subclip, start_seconds is below  *)
(* end_seconds and end_seconds is at most the video's duration: the        *)
(* clamping of the end never gives an empty or reversed interval.          *)
C28_SubclipInterval ==
    subclip # None =>
        /\ ValueOf(subclip).start = ValueOf(start_seconds)
        /\ ValueOf(subclip).end = ValueOf(end_seconds)
        /\ ValueOf(subclip).start < ValueOf(subclip).end
        /\ ValueOf(subclip).end <= video_duration

(* video.subclip was reached with an end time that had to be clamped *)
C28_Witness ==
    /\ pc = "clip_write"
    /\ subclip # None
    /\ parse_time(ValueOf(clip_end_time)) > video_duration
    /\ ValueOf(subclip).end = video_duration
    /\ ValueOf(subclip).start > 0

(* C29: every score overlay segment has a duration >= 0, for every list of *)
(* goals, also when a goal is later than the video's end or two goals      *)
(* share a timestamp.                                                      *)
C29_NonNegativeDurations ==
    \A k \in 1..Len(score_overlays) : score_overlays[k].duration >= 0

(* C30: the goal notification of the k-th timeline entry after the         *)
(* baseline has the colour of the team that scored that goal: team1_color  *)
(* if the goal's team is 1, team2_color otherwise.                         *)
C30_NotificationColour ==
    (NotificationsDone /\ show_notifications /\ custom_notifications = None) =>
      \A k \in 1..Len(notifications) :
         notifications[k].color =
            IF sorted_goals[k].team = 1 THEN "team1_color" ELSE "team2_color"

C30_Witness ==
    /\ NotificationsDone
    /\ show_notifications
    /\ custom_notifications = None
    /\ Len(notifications) >= 2
    /\ notifications[1].color = "team2_color"
    /\ notifications[2].color = "team1_color"

=============================================================================
